---- MODULE Spec2Model ----
(***************************************************************************)
(* Model of the bazel-metrics analyzer: the tree scanner                   *)
(* (scanner.Scanner.Scan, parseBuildFile), the metrics calculator          *)
(* (metrics.Calculator.Calculate, calculateDirectoryBreakdown), the        *)
(* benchmark Runner and main; and of the dashboard (getDataUrl, App's load *)
(* of metrics.json, PackageExplorer).                                      *)
(*                                                                         *)
(* Strings are sequences of one-character strings, so that prefix, suffix, *)
(* lexical order, path cleaning and pattern matching are computed the way  *)
(* the Go code computes them.  Paths inside the scanned tree are sequences *)
(* of names relative to the scan root; RelPath is the "/"-joined string.   *)
(***************************************************************************)
EXTENDS Integers, Sequences, FiniteSets, TLC

VARIABLES
    rootName,    \* base name of Scanner.repoPath
    fsFiles,     \* the files of the tree under the scan root
    fault,       \* the entry the walk reports an error for, or NoFault
    todo,        \* entries filepath.Walk has still to hand to the callback
    packageMap,  \* Scan's packageMap: directory -> Package
    result,      \* the ScanResult (Scan's result, Calculator.scanResult)
    scanErr,     \* the error Scan returns
    report,      \* the Report returned by Calculate
    pc,          \* position in the pipeline
    maxBenchmarks,  \* main's -max-benchmarks flag
    runBenchmarks,  \* main's -benchmark flag
    env,         \* what the operating system answers to main and to the commands
    runner,      \* the benchmark Runner and the locals of Run and benchmarkPackage
    trace,       \* the external commands issued so far, starts and exits
    speedReport, \* the SpeedReport built by Runner.Run
    jsonBytes,   \* the serialized report
    outFile,     \* the file at outputPath
    exitCode,    \* the exit code of the process, once it has exited
    manifest,    \* the bytes of the manifest file handed to parseBuildFile
    targets,     \* the buildTargets parseBuildFile returns
    importMetaEnv,  \* the dashboard build's import.meta.env
    dataUrl,     \* the URL AIFixDashboard fetches
    fetch,       \* App's fetch of /metrics.json: its promise
    metrics,     \* App state: metrics
    loading,     \* App state: loading
    error,       \* App state: error
    route,       \* App state: page
    filter,      \* PackageExplorer state: filter
    search,      \* PackageExplorer state: search
    page         \* PackageExplorer state: page

scanVars == <<rootName, fsFiles, fault, todo, packageMap, result, scanErr, report, pc>>

mainVars == <<maxBenchmarks, runBenchmarks, env, runner, trace, speedReport,
              jsonBytes, outFile, exitCode>>

parseVars == <<manifest, targets>>

dashVars == <<importMetaEnv, dataUrl, fetch, metrics, loading, error, route,
              filter, search, page>>

otherVars == <<parseVars, dashVars>>

vars == <<scanVars, mainVars, otherVars>>

(***************************************************************************)
(* Bounds of the model.                                                    *)
(***************************************************************************)
\* most files in one scanned tree
MaxFiles == 3
\* most packages in a ScanResult handed directly to the calculator
MaxPkgs == 3

(***************************************************************************)
(* Strings.                                                                *)
(***************************************************************************)
\* the characters used, in ascending byte order
Ascii == <<"\n", " ", "(", "-", ".", "/",
           "A", "B", "C", "D", "E", "F", "G", "H", "I", "J", "K", "L", "M",
           "N", "O", "P", "Q", "R", "S", "T", "U", "V", "W", "X", "Y", "Z",
           "_",
           "a", "b", "c", "d", "e", "f", "g", "h", "i", "j", "k", "l", "m",
           "n", "o", "p", "q", "r", "s", "t", "u", "v", "w", "x", "y", "z">>

Ord(c) == CHOOSE i \in 1..Len(Ascii) : Ascii[i] = c

\* strings.HasPrefix
HasPrefix(s, p) == Len(s) >= Len(p) /\ SubSeq(s, 1, Len(p)) = p

\* strings.HasSuffix
HasSuffix(s, p) == Len(s) >= Len(p) /\ SubSeq(s, Len(s) - Len(p) + 1, Len(s)) = p

\* s < t in the byte-wise order sort.Strings uses
RECURSIVE StrLess(_, _)
StrLess(s, t) ==
    IF t = <<>> THEN FALSE
    ELSE IF s = <<>> THEN TRUE
    ELSE IF Head(s) = Head(t) THEN StrLess(Tail(s), Tail(t))
    ELSE Ord(Head(s)) < Ord(Head(t))

\* strings.Join / filepath.Join of path segments with "/"
RECURSIVE JoinSlash(_)
JoinSlash(segs) ==
    IF segs = <<>> THEN <<>>
    ELSE IF Len(segs) = 1 THEN segs[1]
    ELSE segs[1] \o <<"/">> \o JoinSlash(Tail(segs))

Front(s) == SubSeq(s, 1, Len(s) - 1)
Last(s) == s[Len(s)]

\* all orderings of a finite set, as sequences without repetition
RECURSIVE Perms(_)
Perms(S) ==
    IF S = {} THEN {<<>>}
    ELSE UNION {{<<x>> \o p : p \in Perms(S \ {x})} : x \in S}

\* sort.Strings: the names of S in ascending byte-wise order
RECURSIVE SortNames(_)
SortNames(S) ==
    IF S = {} THEN <<>>
    ELSE LET m == CHOOSE x \in S : \A y \in S \ {x} : StrLess(x, y)
         IN  <<m>> \o SortNames(S \ {m})

RECURSIVE SumSeq(_)
SumSeq(s) == IF s = <<>> THEN 0 ELSE Head(s) + SumSeq(Tail(s))

(***************************************************************************)
(* Names.                                                                  *)
(***************************************************************************)
S_dot == <<".">>
S_go == <<".", "g", "o">>
S_test_go == <<"_", "t", "e", "s", "t", ".", "g", "o">>
S_bazel_dash == <<"b", "a", "z", "e", "l", "-">>
S_BUILD == <<"B", "U", "I", "L", "D">>
S_BUILD_bazel == <<"B", "U", "I", "L", "D", ".", "b", "a", "z", "e", "l">>
S_root_label == <<"(", "r", "o", "o", "t", ")">>

N_a_go == <<"a", ".", "g", "o">>
N_a_test_go == <<"a", "_", "t", "e", "s", "t", ".", "g", "o">>
N_README == <<"R", "E", "A", "D", "M", "E">>
N_b_go == <<"b", ".", "g", "o">>
N_a == <<"a">>
N_b == <<"b">>
N_c == <<"c">>

N_repo == <<"r", "e", "p", "o">>
N_dotrepo == <<".", "r", "e", "p", "o">>
N_pkg == <<"p", "k", "g">>
N_sub == <<"s", "u", "b">>
N_vendor == <<"v", "e", "n", "d", "o", "r">>
N_hid == <<".", "h", "i", "d">>
N_bazel_x == <<"b", "a", "z", "e", "l", "-", "x">>

\* Scanner.skipDirs
skipDirs ==
    { <<".", "g", "i", "t">>,
      <<"b", "a", "z", "e", "l", "-", "b", "i", "n">>,
      <<"b", "a", "z", "e", "l", "-", "o", "u", "t">>,
      <<"b", "a", "z", "e", "l", "-", "t", "e", "s", "t", "l", "o", "g", "s">>,
      <<"n", "o", "d", "e", "_", "m", "o", "d", "u", "l", "e", "s">>,
      <<".", "c", "a", "c", "h", "e">>,
      N_vendor }

(***************************************************************************)
(* Manifest texts: a manifest is read as a sequence of lines.              *)
(***************************************************************************)
KW_go_test == <<"g", "o", "_", "t", "e", "s", "t">>
KW_go_library == <<"g", "o", "_", "l", "i", "b", "r", "a", "r", "y">>
KW_go_binary == <<"g", "o", "_", "b", "i", "n", "a", "r", "y">>

L_test == KW_go_test \o <<"(">>
L_test_indented == <<" ", " ">> \o KW_go_test \o <<" ", "(">>
L_library == KW_go_library \o <<"(">>
L_binary == KW_go_binary \o <<"(">>
L_load == <<"l", "o", "a", "d", "(">>

\* the manifest contents of the modelled trees, by text id
ManifestTexts ==
    << <<L_load>>,
       <<L_library, L_test>>,
       <<L_test, L_test_indented, L_binary>>,
       <<L_test>> >>

(***************************************************************************)
(* The scanned tree.  A directory exists when a file lies in or below it.  *)
(***************************************************************************)
NoFault == [path |-> <<>>, kind |-> "none"]

File(d, n, t) == [dir |-> d, name |-> n, text |-> t]

FilePath(f) == f.dir \o <<f.name>>

\* the candidate files of the modelled trees (text 0: not a manifest)
FileUniverse ==
    { File(<<>>, N_a_go, 0), File(<<>>, S_BUILD, 2),
      File(<<N_pkg>>, N_README, 0), File(<<N_pkg>>, N_a_go, 0),
      File(<<N_pkg>>, N_a_test_go, 0), File(<<N_pkg>>, S_BUILD, 1),
      File(<<N_pkg>>, S_BUILD, 2), File(<<N_pkg>>, S_BUILD_bazel, 3),
      File(<<N_pkg, N_sub>>, N_a_go, 0), File(<<N_pkg, N_sub>>, N_a_test_go, 0),
      File(<<N_pkg, N_sub>>, S_BUILD_bazel, 2),
      File(<<N_vendor>>, N_a_go, 0), File(<<N_vendor>>, S_BUILD, 2),
      File(<<N_vendor, N_sub>>, N_a_test_go, 0),
      File(<<N_hid>>, N_a_go, 0),
      File(<<N_bazel_x>>, N_a_go, 0) }

RootNames == {N_repo, N_dotrepo}

\* a tree of three directories: a with two sources, a test and a manifest
\* declaring one go_test, b with one source, c with a README only
ScenarioTree ==
    { File(<<N_a>>, N_a_go, 0), File(<<N_a>>, N_b_go, 0),
      File(<<N_a>>, N_a_test_go, 0), File(<<N_a>>, S_BUILD, 4),
      File(<<N_b>>, N_a_go, 0),
      File(<<N_c>>, N_README, 0) }

\* the sets of at most k candidate files, no two at the same path
RECURSIVE FileSets(_)
FileSets(k) ==
    IF k = 0 THEN {{}}
    ELSE LET P == FileSets(k - 1)
         IN  P \cup UNION { { p \cup {f} :
                                 f \in {g \in FileUniverse :
                                          \A h \in p : FilePath(h) # FilePath(g)} } :
                             p \in P }

Prefixes(p) == {SubSeq(p, 1, n) : n \in 0..Len(p)}

\* the directories of a tree, the root (<<>>) included
DirsOf(files) == UNION {Prefixes(f.dir) : f \in files} \cup {<<>>}

\* the faults a walk over the tree can meet: Lstat of an entry fails, reading a
\* directory fails, opening or reading a manifest fails
FaultsOf(files) ==
    {NoFault}
    \cup {[path |-> d, kind |-> k] : d \in DirsOf(files), k \in {"lstat", "readdir"}}
    \cup {[path |-> FilePath(f), kind |-> "lstat"] : f \in files}
    \cup {[path |-> FilePath(f), kind |-> k] :
            f \in {g \in files : g.text # 0}, k \in {"open", "read"}}

(***************************************************************************)
(* Scanner.parseBuildFile and the three rule patterns.                     *)
(***************************************************************************)
\* the text parseBuildFile rebuilds: every scanned line followed by "\n"
RECURSIVE ReadText(_)
ReadText(lines) ==
    IF lines = <<>> THEN <<>>
    ELSE Head(lines) \o <<"\n">> \o ReadText(Tail(lines))

\* the characters \s matches
IsSpace(c) == c \in {" ", "\n", "\t", "\r", "\f"}

RECURSIVE SkipSpace(_, _)
SkipSpace(text, i) ==
    IF i <= Len(text) /\ IsSpace(text[i]) THEN SkipSpace(text, i + 1) ELSE i

\* a pattern without the ^ anchor
AtLineStartAnywhere(text, i) == TRUE

\* (?m)^ : the start of the text or the position after a "\n"
AtLineStart(text, i) == i = 1 \/ text[i - 1] = "\n"

\* the position of the "(" ending the match of \s*kw\s*\( that starts at i, or 0
MatchEnd(text, i, kw) ==
    LET j == SkipSpace(text, i)
        k == j + Len(kw)
        m == SkipSpace(text, k)
    IN  IF /\ k - 1 <= Len(text)
           /\ SubSeq(text, j, k - 1) = kw
           /\ m <= Len(text)
           /\ text[m] = "("
        THEN m ELSE 0

\* len(regex.FindAllString(text, -1)): the non-overlapping matches from i on
RECURSIVE CountFrom(_, _, _)
CountFrom(text, i, kw) ==
    IF i > Len(text) THEN 0
    ELSE IF AtLineStart(text, i) /\ MatchEnd(text, i, kw) # 0
         THEN 1 + CountFrom(text, MatchEnd(text, i, kw) + 1, kw)
         ELSE CountFrom(text, i + 1, kw)

FindAllCount(text, kw) == CountFrom(text, 1, kw)

NoTargets == [goTests |-> 0, goLibs |-> 0, goBins |-> 0]

\* the lines the bufio scanner delivers: all of them, or those before a read error
LinesRead(f, flt) ==
    IF flt = [path |-> FilePath(f), kind |-> "read"]
    THEN SubSeq(ManifestTexts[f.text], 1, 1)
    ELSE ManifestTexts[f.text]

\* the three counts parseBuildFile takes from the text it has built
CountTargets(text) ==
    [goTests |-> FindAllCount(text, KW_go_test),
     goLibs  |-> FindAllCount(text, KW_go_library),
     goBins  |-> FindAllCount(text, KW_go_binary)]

\* parseBuildFile: (targets, err); err is set when os.Open or the scanner fails
parseBuildFile(f, flt) ==
    IF flt = [path |-> FilePath(f), kind |-> "open"]
    THEN [targets |-> NoTargets, err |-> TRUE]
    ELSE [targets |-> CountTargets(ReadText(LinesRead(f, flt))),
          err |-> flt = [path |-> FilePath(f), kind |-> "read"]]

\* bufio.ScanLines without the carriage return it drops at the end of a line
DropCR(line) ==
    IF line # <<>> /\ line[Len(line)] = "\r" THEN SubSeq(line, 1, Len(line) - 1)
    ELSE line

\* the tokens bufio.Scanner yields for the bytes from i on, cur being the
\* line under construction: a line ends at "\n", the last one at the end
RECURSIVE ScanLinesFrom(_, _, _)
ScanLinesFrom(data, i, cur) ==
    IF i > Len(data) THEN (IF cur = <<>> THEN <<>> ELSE <<DropCR(cur)>>)
    ELSE IF data[i] = "\n"
         THEN <<DropCR(cur)>> \o ScanLinesFrom(data, i + 1, <<>>)
         ELSE ScanLinesFrom(data, i + 1, Append(cur, data[i]))

ScanLines(data) == ScanLinesFrom(data, 1, <<>>)

\* parseBuildFile on a file that opens and reads without an error
ParseManifest(data) == CountTargets(ReadText(ScanLines(data)))

(***************************************************************************)
(* Scanner.Scan: the callback handed to filepath.Walk.                     *)
(***************************************************************************)
\* the directory test without the bazel- prefix rule
IsExcludedDirNoPrefix(base) == HasPrefix(base, S_dot) \/ base \in skipDirs

\* the callback's directory test: hidden, in skipDirs, or a bazel- output link
IsExcludedDir(base) ==
    HasPrefix(base, S_dot) \/ base \in skipDirs \/ HasPrefix(base, S_bazel_dash)

\* the manifest test knowing BUILD.bazel only
IsBuildFileBazelOnly(filename) == filename = S_BUILD_bazel

IsBuildFile(filename) == filename = S_BUILD \/ filename = S_BUILD_bazel

\* the source test without the exclusion of test files
IsGoSourceAnyGo(filename) == HasSuffix(filename, S_go)

IsGoSource(filename) == HasSuffix(filename, S_go) /\ ~HasSuffix(filename, S_test_go)

IsTestFile(filename) == HasSuffix(filename, S_test_go)

\* filepath.Rel(repoPath, dir), "." for the root itself
RelOf(dir) == IF dir = <<>> THEN S_dot ELSE JoinSlash(dir)

NewPackage(root, dir) ==
    [Path |-> <<root>> \o dir, RelPath |-> RelOf(dir),
     HasBuildFile |-> FALSE, HasTestFiles |-> FALSE,
     GoFileCount |-> 0, TestFileCount |-> 0,
     GoTestTargets |-> 0, GoLibraryTargets |-> 0, GoBinaryTargets |-> 0]

\* the error handed back to filepath.Walk instead of being swallowed
OnEntryErrorPropagate == "err"

\* the callback's value for an entry reported with an error
OnEntryError == "nil"

\* the BUILD-file branch storing the counts whether or not parsing failed
MarkBuildFileIgnoreErr(pkg, parsed) ==
    [pkg EXCEPT !.HasBuildFile = TRUE,
                !.GoTestTargets = parsed.targets.goTests,
                !.GoLibraryTargets = parsed.targets.goLibs,
                !.GoBinaryTargets = parsed.targets.goBins]

\* the BUILD-file branch starting the package's file counts afresh
MarkBuildFileReset(pkg, parsed) ==
    [pkg EXCEPT !.HasBuildFile = TRUE,
                !.HasTestFiles = FALSE, !.GoFileCount = 0, !.TestFileCount = 0,
                !.GoTestTargets = IF parsed.err THEN @ ELSE parsed.targets.goTests,
                !.GoLibraryTargets = IF parsed.err THEN @ ELSE parsed.targets.goLibs,
                !.GoBinaryTargets = IF parsed.err THEN @ ELSE parsed.targets.goBins]

\* the BUILD-file branch adding the counts to those the package has
MarkBuildFileSum(pkg, parsed) ==
    IF parsed.err
    THEN [pkg EXCEPT !.HasBuildFile = TRUE]
    ELSE [pkg EXCEPT !.HasBuildFile = TRUE,
                     !.GoTestTargets = @ + parsed.targets.goTests,
                     !.GoLibraryTargets = @ + parsed.targets.goLibs,
                     !.GoBinaryTargets = @ + parsed.targets.goBins]

\* the BUILD-file branch on the package
MarkBuildFile(pkg, parsed) ==
    IF parsed.err
    THEN [pkg EXCEPT !.HasBuildFile = TRUE]
    ELSE [pkg EXCEPT !.HasBuildFile = TRUE,
                     !.GoTestTargets = parsed.targets.goTests,
                     !.GoLibraryTargets = parsed.targets.goLibs,
                     !.GoBinaryTargets = parsed.targets.goBins]

\* the callback on a file: get or create the package, then the three checks
VisitFile(st, f, root, flt) ==
    LET pkg0 == IF f.dir \in DOMAIN st.packageMap
                THEN st.packageMap[f.dir] ELSE NewPackage(root, f.dir)
        isB  == IsBuildFile(f.name)
        pkg1 == IF isB THEN MarkBuildFile(pkg0, parseBuildFile(f, flt)) ELSE pkg0
        isG  == IsGoSource(f.name)
        pkg2 == IF isG THEN [pkg1 EXCEPT !.GoFileCount = @ + 1] ELSE pkg1
        isT  == IsTestFile(f.name)
        pkg3 == IF isT THEN [pkg2 EXCEPT !.HasTestFiles = TRUE, !.TestFileCount = @ + 1]
                ELSE pkg2
    IN  [packageMap |-> (f.dir :> pkg3) @@ st.packageMap,
         result |-> [st.result EXCEPT
                       !.TotalBUILDs = IF isB THEN @ + 1 ELSE @,
                       !.TotalGoFiles = IF isG THEN @ + 1 ELSE @,
                       !.TotalTests = IF isT THEN @ + 1 ELSE @]]

\* a filter that also keeps directories holding only a manifest
IsGoPackageOrBuild(pkg) ==
    pkg.GoFileCount > 0 \/ pkg.TestFileCount > 0 \/ pkg.HasBuildFile

\* the filter when the map is turned into the Packages slice
IsGoPackage(pkg) == pkg.GoFileCount > 0 \/ pkg.TestFileCount > 0

(***************************************************************************)
(* filepath.Walk: a directory's entries in lexical order, depth first.     *)
(***************************************************************************)
Entry(p, d) == [path |-> p, isDir |-> d]

ChildNames(files, d) ==
    {f.name : f \in {g \in files : g.dir = d}}
    \cup {p[Len(d) + 1] : p \in {q \in DirsOf(files) :
                                   Len(q) > Len(d) /\ SubSeq(q, 1, Len(d)) = d}}

Children(files, d) ==
    LET names == SortNames(ChildNames(files, d))
    IN  [i \in 1..Len(names) |->
           Entry(d \o <<names[i]>>, (d \o <<names[i]>>) \in DirsOf(files))]

FileAt(files, p) == CHOOSE f \in files : FilePath(f) = p

\* Lstat of the entry failed, or reading the directory's names failed
WalkError(e, flt) == flt.path = e.path /\ flt.kind \in {"lstat", "readdir"}

BaseName(e, root) == IF e.path = <<>> THEN root ELSE Last(e.path)

EmptyResult(root) ==
    [RepoPath |-> <<root>>, Packages |-> <<>>,
     TotalBUILDs |-> 0, TotalGoFiles |-> 0, TotalTests |-> 0]

NoReport == [none |-> TRUE]

\* the flags at their defaults and the operating system answering without error,
\* main not having gone past Calculate
DefaultMaxBenchmarks == 5

QuietEnv == [main |-> "none", bad |-> 0,
             go |-> "ok", clean |-> "ok", cold |-> "ok", warm |-> "ok"]

NoRunner == [nil |-> TRUE]

PreviousFile == [kind |-> "previous", writes |-> 0]

\* no manifest under parse
IdleParse ==
    /\ manifest = <<>>
    /\ targets = [nil |-> TRUE]

\* the dashboard not loaded
IdleDash ==
    /\ importMetaEnv = [VITE_DATA_BASE_URL |-> [set |-> FALSE], DEV |-> FALSE]
    /\ dataUrl = [nil |-> TRUE]
    /\ fetch = "none"
    /\ metrics = [nil |-> TRUE]
    /\ loading = TRUE
    /\ error = [nil |-> TRUE]
    /\ route = "metrics"
    /\ filter = "all"
    /\ search = <<>>
    /\ page = 0

IdleOther == IdleParse /\ IdleDash

IdleMain ==
    /\ maxBenchmarks = DefaultMaxBenchmarks
    /\ runBenchmarks = FALSE
    /\ env = QuietEnv
    /\ runner = NoRunner
    /\ trace = <<>>
    /\ speedReport = [nil |-> TRUE]
    /\ jsonBytes = [nil |-> TRUE]
    /\ outFile = PreviousFile
    /\ exitCode = "none"

\* Scan starts on a tree with at most maxFiles files
InitScan(maxFiles) ==
    /\ rootName \in RootNames
    /\ fsFiles \in FileSets(maxFiles)
    /\ fault \in FaultsOf(fsFiles)
    /\ todo = <<Entry(<<>>, TRUE)>>
    /\ packageMap = <<>>
    /\ result = EmptyResult(rootName)
    /\ scanErr = "nil"
    /\ report = NoReport
    /\ pc = "walk"
    /\ IdleMain
    /\ IdleOther

\* the scan of the three-directory tree, every entry readable
InitScenario ==
    /\ rootName = N_repo
    /\ fsFiles = ScenarioTree
    /\ fault = NoFault
    /\ todo = <<Entry(<<>>, TRUE)>>
    /\ packageMap = <<>>
    /\ result = EmptyResult(rootName)
    /\ scanErr = "nil"
    /\ report = NoReport
    /\ pc = "walk"
    /\ IdleMain
    /\ IdleOther

Init == InitScan(MaxFiles) \/ InitScenario

\* the callback returns at once for an entry reported with an error
WalkErr ==
    /\ pc = "walk" /\ todo # <<>>
    /\ WalkError(Head(todo), fault)
    /\ IF OnEntryError = "nil"
       THEN todo' = Tail(todo) /\ UNCHANGED <<scanErr, pc>>
       ELSE todo' = <<>> /\ scanErr' = "err" /\ pc' = "failed"
    /\ UNCHANGED <<rootName, fsFiles, fault, packageMap, result, report>>
    /\ UNCHANGED mainVars
    /\ UNCHANGED otherVars

\* an excluded directory: filepath.SkipDir, nothing below it is walked
WalkSkipDir ==
    /\ pc = "walk" /\ todo # <<>>
    /\ ~WalkError(Head(todo), fault)
    /\ Head(todo).isDir
    /\ IsExcludedDir(BaseName(Head(todo), rootName))
    /\ todo' = Tail(todo)
    /\ UNCHANGED <<rootName, fsFiles, fault, packageMap, result, scanErr, report, pc>>
    /\ UNCHANGED mainVars
    /\ UNCHANGED otherVars

\* any other directory: its entries are walked next
WalkDir ==
    /\ pc = "walk" /\ todo # <<>>
    /\ ~WalkError(Head(todo), fault)
    /\ Head(todo).isDir
    /\ ~IsExcludedDir(BaseName(Head(todo), rootName))
    /\ todo' = Children(fsFiles, Head(todo).path) \o Tail(todo)
    /\ UNCHANGED <<rootName, fsFiles, fault, packageMap, result, scanErr, report, pc>>
    /\ UNCHANGED mainVars
    /\ UNCHANGED otherVars

\* a file
WalkFile ==
    /\ pc = "walk" /\ todo # <<>>
    /\ ~WalkError(Head(todo), fault)
    /\ ~Head(todo).isDir
    /\ LET st == VisitFile([packageMap |-> packageMap, result |-> result],
                           FileAt(fsFiles, Head(todo).path), rootName, fault)
       IN  packageMap' = st.packageMap /\ result' = st.result
    /\ todo' = Tail(todo)
    /\ UNCHANGED <<rootName, fsFiles, fault, scanErr, report, pc>>
    /\ UNCHANGED mainVars
    /\ UNCHANGED otherVars

\* after the walk: the packages of the map that pass the filter, in the order
\* the map iteration yields them
ScanReturn ==
    /\ pc = "walk" /\ todo = <<>>
    /\ \E order \in Perms({d \in DOMAIN packageMap : IsGoPackage(packageMap[d])}) :
         result' = [result EXCEPT
                      !.Packages = [i \in 1..Len(order) |-> packageMap[order[i]]]]
    /\ pc' = "scanned"
    /\ UNCHANGED <<rootName, fsFiles, fault, todo, packageMap, scanErr, report>>
    /\ UNCHANGED mainVars
    /\ UNCHANGED otherVars

(***************************************************************************)
(* metrics.Calculator.  A percentage float64(a) / float64(b) * 100 is kept *)
(* as the exact fraction n / d.                                            *)
(***************************************************************************)
ZeroPct == [n |-> 0, d |-> 1]

PctOf(a, b) == [n |-> a * 100, d |-> b]

\* the input Package itself appended to the Report
PackageInfoAlias(pkg) == pkg

\* Calculate: the PackageInfo built for one package
PackageInfoOf(pkg) ==
    [Path |-> pkg.RelPath, HasBuildFile |-> pkg.HasBuildFile,
     HasTestFiles |-> pkg.HasTestFiles, TestFileCount |-> pkg.TestFileCount,
     GoTestTargetCount |-> pkg.GoTestTargets, GoFileCount |-> pkg.GoFileCount]

\* the first loop of Calculate over scanResult.Packages
RECURSIVE SummaryLoop(_, _)
SummaryLoop(pkgs, acc) ==
    IF pkgs = <<>> THEN acc
    ELSE LET pkg == Head(pkgs)
         IN  SummaryLoop(Tail(pkgs),
               [packagesWithBuild |->
                    acc.packagesWithBuild + (IF pkg.HasBuildFile THEN 1 ELSE 0),
                packagesWithTests |->
                    acc.packagesWithTests + (IF pkg.HasTestFiles THEN 1 ELSE 0),
                totalGoTestTargets |-> acc.totalGoTestTargets + pkg.GoTestTargets,
                Packages |-> Append(acc.Packages, PackageInfoOf(pkg))])

\* the second loop without the test on HasTestFiles
RECURSIVE BazelizedLoopAnyTarget(_)
BazelizedLoopAnyTarget(pkgs) ==
    IF pkgs = <<>> THEN 0
    ELSE (IF Head(pkgs).GoTestTargets > 0 THEN 1 ELSE 0)
         + BazelizedLoopAnyTarget(Tail(pkgs))

\* the second loop: packages with tests that also have go_test targets
RECURSIVE BazelizedLoop(_)
BazelizedLoop(pkgs) ==
    IF pkgs = <<>> THEN 0
    ELSE (IF Head(pkgs).HasTestFiles /\ Head(pkgs).GoTestTargets > 0 THEN 1 ELSE 0)
         + BazelizedLoop(Tail(pkgs))

\* strings.Split(s, "/"), cur being the segment under construction
RECURSIVE SplitFrom(_, _)
SplitFrom(s, cur) ==
    IF s = <<>> THEN <<cur>>
    ELSE IF Head(s) = "/" THEN <<cur>> \o SplitFrom(Tail(s), <<>>)
    ELSE SplitFrom(Tail(s), Append(cur, Head(s)))

SplitSlash(s) == SplitFrom(s, <<>>)

\* filepath.Clean on the segments: empty and "." are dropped, ".." removes the
\* segment before it, or is kept (dropped when rooted) when there is none
RECURSIVE CleanSegs(_, _, _)
CleanSegs(segs, out, rooted) ==
    IF segs = <<>> THEN out
    ELSE LET g == Head(segs)
         IN  IF g = <<>> \/ g = S_dot THEN CleanSegs(Tail(segs), out, rooted)
             ELSE IF g = <<".", ".">>
                  THEN IF out # <<>> /\ Last(out) # <<".", ".">>
                       THEN CleanSegs(Tail(segs), Front(out), rooted)
                       ELSE IF rooted THEN CleanSegs(Tail(segs), out, rooted)
                       ELSE CleanSegs(Tail(segs), Append(out, g), rooted)
                  ELSE CleanSegs(Tail(segs), Append(out, g), rooted)

Clean(path) ==
    LET rooted == path # <<>> /\ Head(path) = "/"
        out == CleanSegs(SplitSlash(path), <<>>, rooted)
    IN  IF rooted THEN <<"/">> \o JoinSlash(out)
        ELSE IF out = <<>> THEN S_dot ELSE JoinSlash(out)

getTopLevelDir(path) ==
    LET parts == SplitSlash(Clean(path))
    IN  IF Len(parts) > 0 THEN parts[1] ELSE <<>>

\* the group taken to be the whole relative path
TopDirOfWholePath(pkg) ==
    IF pkg.RelPath = <<>> \/ pkg.RelPath = S_dot THEN S_root_label ELSE pkg.RelPath

\* the group a package is counted in
TopDirOf(pkg) ==
    LET topDir == getTopLevelDir(pkg.RelPath)
    IN  IF topDir = <<>> \/ topDir = S_dot THEN S_root_label ELSE topDir

NewDirectoryMetrics(name) ==
    [Name |-> name, TotalPackages |-> 0, BazelizedPackages |-> 0,
     PackagesWithTests |-> 0, BazelizationPct |-> ZeroPct, TestCoveragePct |-> ZeroPct]

\* the grouping loop starting a new entry for every package
RECURSIVE GroupLoopFresh(_, _)
GroupLoopFresh(pkgs, dirMap) ==
    IF pkgs = <<>> THEN dirMap
    ELSE LET pkg == Head(pkgs)
             topDir == TopDirOf(pkg)
             dm == NewDirectoryMetrics(topDir)
             dm1 == [dm EXCEPT
                       !.TotalPackages = @ + 1,
                       !.BazelizedPackages = IF pkg.HasBuildFile THEN @ + 1 ELSE @,
                       !.PackagesWithTests = IF pkg.HasTestFiles THEN @ + 1 ELSE @]
         IN  GroupLoopFresh(Tail(pkgs), (topDir :> dm1) @@ dirMap)

\* the grouping loop of calculateDirectoryBreakdown, dirMap: name -> metrics
RECURSIVE GroupLoop(_, _)
GroupLoop(pkgs, dirMap) ==
    IF pkgs = <<>> THEN dirMap
    ELSE LET pkg == Head(pkgs)
             topDir == TopDirOf(pkg)
             dm == IF topDir \in DOMAIN dirMap THEN dirMap[topDir]
                   ELSE NewDirectoryMetrics(topDir)
             dm1 == [dm EXCEPT
                       !.TotalPackages = @ + 1,
                       !.BazelizedPackages = IF pkg.HasBuildFile THEN @ + 1 ELSE @,
                       !.PackagesWithTests = IF pkg.HasTestFiles THEN @ + 1 ELSE @]
         IN  GroupLoop(Tail(pkgs), (topDir :> dm1) @@ dirMap)

\* the percentages of one group, bazelization taken over the tested packages
WithPercentagesOverTested(dm) ==
    IF dm.TotalPackages > 0
    THEN [dm EXCEPT !.BazelizationPct = PctOf(dm.BazelizedPackages, dm.PackagesWithTests),
                    !.TestCoveragePct = PctOf(dm.PackagesWithTests, dm.TotalPackages)]
    ELSE dm

\* the percentages of one group
WithPercentages(dm) ==
    IF dm.TotalPackages > 0
    THEN [dm EXCEPT !.BazelizationPct = PctOf(dm.BazelizedPackages, dm.TotalPackages),
                    !.TestCoveragePct = PctOf(dm.PackagesWithTests, dm.TotalPackages)]
    ELSE dm

\* a less function sorting ascending
BreakdownLessAscending(a, b) == a.TotalPackages < b.TotalPackages

\* the less function given to sort.Slice
BreakdownLess(a, b) == a.TotalPackages > b.TotalPackages

\* sort.Slice on a slice of at most 12 elements is an insertion sort
RECURSIVE InsertSorted(_, _)
InsertSorted(s, x) ==
    IF s = <<>> THEN <<x>>
    ELSE IF BreakdownLess(x, Last(s))
         THEN Append(InsertSorted(Front(s), x), Last(s))
         ELSE Append(s, x)

RECURSIVE SortSlice(_)
SortSlice(s) ==
    IF s = <<>> THEN <<>>
    ELSE InsertSorted(SortSlice(Front(s)), Last(s))

\* calculateDirectoryBreakdown, order being the order in which the iteration
\* over dirMap yields the groups
calculateDirectoryBreakdown(pkgs, order) ==
    LET dirMap == GroupLoop(pkgs, <<>>)
    IN  SortSlice([i \in 1..Len(order) |-> WithPercentages(dirMap[order[i]])])

\* Calculator.Calculate
CalculateReport(sr, order) ==
    LET acc == SummaryLoop(sr.Packages,
                   [packagesWithBuild |-> 0, packagesWithTests |-> 0,
                    totalGoTestTargets |-> 0, Packages |-> <<>>])
        totalPackages == Len(sr.Packages)
        packagesWithBazelizedTests == BazelizedLoop(sr.Packages)
    IN  [RepoPath |-> sr.RepoPath,
         Summary |->
           [TotalPackages |-> totalPackages,
            TotalBuildFiles |-> sr.TotalBUILDs,
            TotalTestFiles |-> sr.TotalTests,
            TotalGoFiles |-> sr.TotalGoFiles,
            PackagesWithBuild |-> acc.packagesWithBuild,
            PackagesWithTests |-> acc.packagesWithTests,
            TotalGoTestTargets |-> acc.totalGoTestTargets,
            BazelizationPct |->
                IF totalPackages > 0
                THEN PctOf(acc.packagesWithBuild, totalPackages) ELSE ZeroPct,
            TestCoveragePct |->
                IF totalPackages > 0
                THEN PctOf(acc.packagesWithTests, totalPackages) ELSE ZeroPct,
            BazelizedTestsPct |->
                IF acc.packagesWithTests > 0
                THEN PctOf(packagesWithBazelizedTests, acc.packagesWithTests)
                ELSE ZeroPct],
         DirectoryBreakdown |-> calculateDirectoryBreakdown(sr.Packages, order),
         Packages |-> acc.Packages,
         SpeedComparison |-> [nil |-> TRUE]]

Calculate ==
    /\ pc = "scanned"
    /\ \E order \in Perms(DOMAIN GroupLoop(result.Packages, <<>>)) :
         report' = CalculateReport(result, order)
    /\ pc' = "done"
    /\ UNCHANGED <<rootName, fsFiles, fault, todo, packageMap, result, scanErr>>
    /\ UNCHANGED mainVars
    /\ UNCHANGED otherVars

Next == WalkErr \/ WalkSkipDir \/ WalkDir \/ WalkFile \/ ScanReturn \/ Calculate

Spec == Init /\ [][Next]_vars

(***************************************************************************)
(* The calculator alone, on any ScanResult (NewCalculator(result)).        *)
(***************************************************************************)
S_lib == <<"l", "i", "b">>

\* RelPath values of the packages handed to the calculator
RelPathPool == {S_dot, N_pkg, JoinSlash(<<N_pkg, N_sub>>), S_lib}

\* the flags and go_test count of a package: a positive count only with a manifest
PackageShapes ==
    {sh \in [b : BOOLEAN, t : BOOLEAN, g : {0, 2}] : sh.g > 0 => sh.b}

PackagePool ==
    {[Path |-> <<N_repo>> \o SplitSlash(rel), RelPath |-> rel,
      HasBuildFile |-> sh.b, HasTestFiles |-> sh.t,
      GoFileCount |-> 1, TestFileCount |-> 1,
      GoTestTargets |-> sh.g, GoLibraryTargets |-> 0, GoBinaryTargets |-> 0] :
        rel \in RelPathPool, sh \in PackageShapes}

\* the sequences over S of length at most k
RECURSIVE SeqsUpTo(_, _)
SeqsUpTo(S, k) ==
    IF k = 0 THEN {<<>>}
    ELSE LET P == SeqsUpTo(S, k - 1)
         IN  P \cup {Append(q, x) : q \in {r \in P : Len(r) = k - 1}, x \in S}

\* the sequences over S of length at most k whose packages differ in RelPath,
\* as the keys of Scan's packageMap do
RECURSIVE DistinctSeqs(_, _)
DistinctSeqs(S, k) ==
    IF k = 0 THEN {<<>>}
    ELSE LET P == DistinctSeqs(S, k - 1)
         IN  P \cup UNION { { Append(q, x) :
                                x \in {y \in S : \A i \in DOMAIN q :
                                                   q[i].RelPath # y.RelPath} } :
                            q \in {r \in P : Len(r) = k - 1} }

InitCalc ==
    /\ rootName = N_repo
    /\ fsFiles = {}
    /\ fault = NoFault
    /\ todo = <<>>
    /\ packageMap = <<>>
    /\ \E pkgs \in DistinctSeqs(PackagePool, MaxPkgs) :
         result = [EmptyResult(N_repo) EXCEPT !.Packages = pkgs]
    /\ scanErr = "nil"
    /\ report = NoReport
    /\ pc = "scanned"
    /\ IdleMain
    /\ IdleOther

NextCalc == Calculate

SpecCalc == InitCalc /\ [][NextCalc]_vars

(***************************************************************************)
(* benchmark.Runner.  ScanResult.Packages holds pointers: a candidate is   *)
(* the index of its Package in ScanResult.Packages, and the memory         *)
(* selectCandidates works on is the pair of the Packages array and the     *)
(* candidates array.                                                       *)
(***************************************************************************)
Nil == [nil |-> TRUE]

\* what main and the Runner never write
treeVars == <<rootName, fsFiles, fault, todo, packageMap, scanErr>>

IsNil(x) == "nil" \in DOMAIN x

\* the ceiling on TestFileCount in selectCandidates
MaxTestFileCount == 20

\* the maximum NewRunner substitutes for a non-positive one
DefaultMaxTests == 5

\* NewRunner: the maxTests field of the Runner
NewRunnerMaxTests(maxTests) ==
    IF maxTests <= 0 THEN DefaultMaxTests ELSE maxTests

\* the eligibility test without the test on go_test targets
IsCandidateAnyTargets(pkg) ==
    /\ pkg.HasTestFiles
    /\ pkg.TestFileCount > 0
    /\ pkg.TestFileCount <= MaxTestFileCount

\* selectCandidates: the eligibility test
IsCandidate(pkg) ==
    /\ pkg.HasTestFiles
    /\ pkg.GoTestTargets > 0
    /\ pkg.TestFileCount > 0
    /\ pkg.TestFileCount <= MaxTestFileCount

\* selectCandidates: the first loop, appending the eligible packages in order
RECURSIVE FilterLoop(_, _, _)
FilterLoop(pkgs, k, cands) ==
    IF k > Len(pkgs) THEN cands
    ELSE FilterLoop(pkgs, k + 1,
                    IF IsCandidate(pkgs[k]) THEN Append(cands, k) ELSE cands)

\* candidates[j].TestFileCount
CandCount(mem, j) == mem.Packages[mem.candidates[j]].TestFileCount

\* the inner loop without the comparison: minIdx stays i
MinIdxLoopKeep(mem, j, minIdx) == minIdx

\* selectCandidates: the inner loop over j, from j on
RECURSIVE MinIdxLoop(_, _, _)
MinIdxLoop(mem, j, minIdx) ==
    IF j > Len(mem.candidates) THEN minIdx
    ELSE MinIdxLoop(mem, j + 1,
                    IF CandCount(mem, j) < CandCount(mem, minIdx) THEN j ELSE minIdx)

\* the swap done on the Packages array itself, as if candidates shared it
SwapInPackages(mem, i, j) ==
    [mem EXCEPT !.Packages =
        [@ EXCEPT ![mem.candidates[i]] = mem.Packages[mem.candidates[j]],
                  ![mem.candidates[j]] = mem.Packages[mem.candidates[i]]]]

\* selectCandidates: candidates[i], candidates[minIdx] = candidates[minIdx], candidates[i]
SwapCandidates(mem, i, j) ==
    [mem EXCEPT !.candidates =
        [@ EXCEPT ![i] = mem.candidates[j], ![j] = mem.candidates[i]]]

\* selectCandidates: the outer loop, i counted from 1
RECURSIVE SortLoop(_, _, _)
SortLoop(mem, i, maxTests) ==
    IF i < Len(mem.candidates) /\ i <= maxTests
    THEN SortLoop(SwapCandidates(mem, i, MinIdxLoop(mem, i + 1, i)), i + 1, maxTests)
    ELSE mem

selectCandidates(pkgs, maxTests) ==
    SortLoop([Packages |-> pkgs, candidates |-> FilterLoop(pkgs, 1, <<>>)],
             1, maxTests)

\* Run without the limit
LimitCandidatesNone(cands, maxTests) == cands

\* Run: candidates[:r.maxTests]
LimitCandidates(cands, maxTests) ==
    IF Len(cands) > maxTests THEN SubSeq(cands, 1, maxTests) ELSE cands

\* benchmarkPackage: the row before any timing is assigned
NewBenchmark(pkg) ==
    [Path |-> pkg.RelPath, GoTestMs |-> "unset",
     BazelTestColdMs |-> "unset", BazelTestWarmMs |-> "unset"]

\* runGoTest with the error of cmd.Run handed back
runGoTestReturnErr(outcome) ==
    [elapsed |-> "elapsed", err |-> IF outcome = "ok" THEN "nil" ELSE "err"]

\* runGoTest: the elapsed time and a nil error, whatever cmd.Run returned
runGoTest(outcome) ==
    IF outcome # "ok"
    THEN [elapsed |-> "elapsed", err |-> "nil"]
    ELSE [elapsed |-> "elapsed", err |-> "nil"]

\* runBazelTest: the elapsed time and the error of cmd.Run
runBazelTest(outcome) ==
    [elapsed |-> "elapsed", err |-> IF outcome = "ok" THEN "nil" ELSE "err"]

\* the steps of benchmarkPackage that run a command, and the command of each
CommandSteps == {"go", "clean", "cold", "warm"}

CommandOf(step) ==
    CASE step = "go" -> "go test"
      [] step = "clean" -> "bazel clean"
      [] OTHER -> "bazel test"

\* what cmd.Run does for the command of this step of the k-th candidate
OutcomeOf(step, k) == IF env.bad = k THEN env[step] ELSE "ok"

\* benchmarkPackage with the cold run straight after the native run
NextStepNoClean(step) ==
    CASE step = "go" -> "cold"
      [] step = "clean" -> "sleep"
      [] step = "sleep" -> "cold"
      [] step = "cold" -> "warm"
      [] OTHER -> "emit"

\* benchmarkPackage and cleanBazelCache: the statement after each step
NextStep(step) ==
    CASE step = "go" -> "clean"
      [] step = "clean" -> "sleep"
      [] step = "sleep" -> "cold"
      [] step = "cold" -> "warm"
      [] OTHER -> "emit"

\* the Runner once the command of its current step has returned
AfterCommand(r, outcome) ==
    CASE r.step = "go" ->
           LET g == runGoTest(outcome)
           IN  IF g.err # "nil"
               THEN [r EXCEPT !.running = FALSE, !.step = "skip", !.benchmark = Nil]
               ELSE [r EXCEPT !.running = FALSE, !.step = NextStep(r.step),
                              !.benchmark.GoTestMs = g.elapsed]
      [] r.step = "clean" -> [r EXCEPT !.running = FALSE, !.step = NextStep(r.step)]
      [] r.step = "cold" ->
           [r EXCEPT !.running = FALSE, !.step = NextStep(r.step),
                     !.benchmark.BazelTestColdMs = runBazelTest(outcome).elapsed]
      [] OTHER ->
           [r EXCEPT !.running = FALSE, !.step = NextStep(r.step),
                     !.benchmark.BazelTestWarmMs = runBazelTest(outcome).elapsed]

\* Run returning an error when nothing was benchmarked
RunErrWhenEmpty == IF speedReport.Packages = <<>> THEN "err" ELSE "nil"

\* Run: the error it returns
RunErr == "nil"

\* Report.SetSpeedComparison
SetSpeedComparison(r, speed) == [r EXCEPT !.SpeedComparison = speed]

Event(ev, outcome) ==
    [ev |-> ev, cmd |-> CommandOf(runner.step), cand |-> runner.i,
     pkg |-> runner.candidates[runner.i], outcome |-> outcome]

\* main: benchmark.NewRunner(absRepoPath, scanResult, maxBenchmarks)
NewRunner ==
    /\ pc = "done" /\ runBenchmarks
    /\ runner' = [maxTests |-> NewRunnerMaxTests(maxBenchmarks), candidates |-> <<>>,
                  i |-> 0, step |-> "none", running |-> FALSE, benchmark |-> Nil]
    /\ pc' = "run"
    /\ UNCHANGED <<treeVars, result, report, maxBenchmarks, runBenchmarks, env,
                   trace, speedReport, jsonBytes, outFile, exitCode>>
    /\ UNCHANGED otherVars

\* Run: the empty SpeedReport, selectCandidates, the limit, and the first candidate
RunSelect ==
    /\ pc = "run"
    /\ LET mem == selectCandidates(result.Packages, runner.maxTests)
           cands == LimitCandidates(mem.candidates, runner.maxTests)
       IN  /\ result' = [result EXCEPT !.Packages = mem.Packages]
           /\ IF Len(mem.candidates) = 0
              THEN /\ runner' = runner
                   /\ pc' = "ran"
              ELSE /\ runner' = [runner EXCEPT
                                   !.candidates = cands, !.i = 1, !.step = "go",
                                   !.benchmark = NewBenchmark(mem.Packages[cands[1]])]
                   /\ pc' = "loop"
    /\ speedReport' = [Packages |-> <<>>]
    /\ UNCHANGED <<treeVars, report, maxBenchmarks, runBenchmarks, env,
                   trace, jsonBytes, outFile, exitCode>>
    /\ UNCHANGED otherVars

\* cmd.Run is entered: the command of the current step is started
CmdStart ==
    /\ pc = "loop" /\ ~runner.running
    /\ runner.step \in CommandSteps
    /\ trace' = Append(trace, Event("start", "-"))
    /\ runner' = [runner EXCEPT !.running = TRUE]
    /\ UNCHANGED <<treeVars, result, report, pc, maxBenchmarks, runBenchmarks, env,
                   speedReport, jsonBytes, outFile, exitCode>>
    /\ UNCHANGED otherVars

\* cmd.Run returns: the caller goes on with the outcome
CmdExit ==
    /\ pc = "loop" /\ runner.running
    /\ LET outcome == OutcomeOf(runner.step, runner.i)
       IN  /\ trace' = Append(trace, Event("exit", outcome))
           /\ runner' = AfterCommand(runner, outcome)
    /\ UNCHANGED <<treeVars, result, report, pc, maxBenchmarks, runBenchmarks, env,
                   speedReport, jsonBytes, outFile, exitCode>>
    /\ UNCHANGED otherVars

\* cleanBazelCache: time.Sleep after the clean
Sleep ==
    /\ pc = "loop" /\ ~runner.running
    /\ runner.step = "sleep"
    /\ trace' = Append(trace, [Event("sleep", "-") EXCEPT !.cmd = "sleep"])
    /\ runner' = [runner EXCEPT !.step = NextStep(runner.step)]
    /\ UNCHANGED <<treeVars, result, report, pc, maxBenchmarks, runBenchmarks, env,
                   speedReport, jsonBytes, outFile, exitCode>>
    /\ UNCHANGED otherVars

\* Run: benchmarkPackage has returned; the row is appended unless it returned
\* an error, and the loop goes to the next candidate or ends
LoopNext ==
    /\ pc = "loop" /\ ~runner.running
    /\ runner.step \in {"emit", "skip"}
    /\ speedReport' = IF runner.step = "emit"
                      THEN [speedReport EXCEPT
                              !.Packages = Append(@, runner.benchmark)]
                      ELSE speedReport
    /\ IF runner.i < Len(runner.candidates)
       THEN /\ runner' = [runner EXCEPT
                            !.i = @ + 1, !.step = "go",
                            !.benchmark =
                                NewBenchmark(result.Packages[runner.candidates[runner.i + 1]])]
            /\ pc' = pc
       ELSE /\ runner' = [runner EXCEPT !.step = "none", !.benchmark = Nil]
            /\ pc' = "ran"
    /\ UNCHANGED <<treeVars, result, report, maxBenchmarks, runBenchmarks, env,
                   trace, jsonBytes, outFile, exitCode>>
    /\ UNCHANGED otherVars

\* main: Run has returned; the SpeedReport is attached unless Run returned an error
RunReturn ==
    /\ pc = "ran"
    /\ report' = IF RunErr = "nil"
                 THEN SetSpeedComparison(report, speedReport) ELSE report
    /\ pc' = "marshal"
    /\ UNCHANGED <<treeVars, result, maxBenchmarks, runBenchmarks, env, runner,
                   trace, speedReport, jsonBytes, outFile, exitCode>>
    /\ UNCHANGED otherVars

(***************************************************************************)
(* The Runner alone, after Calculate, on any ScanResult.                   *)
(***************************************************************************)
\* most packages in a ScanResult handed to the Runner
MaxBenchPkgs == 3

\* largest -max-benchmarks value
MaxBenchmarks == 2

Letters == <<"a", "b", "c", "d", "e", "f">>

\* RelPath of the i-th package: pkg/a, pkg/b, ...
BenchRelPath(i) == JoinSlash(<<N_pkg, <<Letters[i]>>>>)

\* HasTestFiles, TestFileCount and GoTestTargets of a package
BenchShapes ==
    { [t |-> TRUE, c |-> 1, g |-> 2], [t |-> TRUE, c |-> 3, g |-> 2],
      [t |-> TRUE, c |-> MaxTestFileCount + 1, g |-> 2],
      [t |-> TRUE, c |-> 1, g |-> 0], [t |-> FALSE, c |-> 0, g |-> 2] }

BenchPackage(i, sh) ==
    [Path |-> <<N_repo>> \o SplitSlash(BenchRelPath(i)), RelPath |-> BenchRelPath(i),
     HasBuildFile |-> sh.g > 0, HasTestFiles |-> sh.t,
     GoFileCount |-> 1, TestFileCount |-> sh.c,
     GoTestTargets |-> sh.g, GoLibraryTargets |-> 0, GoBinaryTargets |-> 0]

\* the ScanResult with these packages and the totals of their files
BenchResult(shapes) ==
    [RepoPath |-> <<N_repo>>,
     Packages |-> [i \in 1..Len(shapes) |-> BenchPackage(i, shapes[i])],
     TotalBUILDs |-> Cardinality({i \in 1..Len(shapes) : shapes[i].g > 0}),
     TotalGoFiles |-> Len(shapes),
     TotalTests |-> SumSeq([i \in 1..Len(shapes) |-> shapes[i].c])]

\* five eligible packages with test-file counts 5, 1, 3, 8, 2
ScenarioShapes ==
    [i \in 1..5 |-> [t |-> TRUE, c |-> <<5, 1, 3, 8, 2>>[i], g |-> 1]]

\* the outcomes of the four commands for the one candidate they go wrong for
BadOutcomes ==
    { [go |-> "exit", clean |-> "ok", cold |-> "ok", warm |-> "ok"],
      [go |-> "nostart", clean |-> "ok", cold |-> "ok", warm |-> "ok"],
      [go |-> "ok", clean |-> "fail", cold |-> "ok", warm |-> "ok"],
      [go |-> "ok", clean |-> "ok", cold |-> "fail", warm |-> "ok"],
      [go |-> "ok", clean |-> "ok", cold |-> "ok", warm |-> "fail"],
      [go |-> "ok", clean |-> "ok", cold |-> "fail", warm |-> "fail"],
      [go |-> "exit", clean |-> "fail", cold |-> "fail", warm |-> "fail"],
      [go |-> "nostart", clean |-> "fail", cold |-> "fail", warm |-> "fail"] }

\* the shapes of the packages benchmarked when commands go wrong
FailShapes ==
    { [t |-> TRUE, c |-> 1, g |-> 2], [t |-> TRUE, c |-> 3, g |-> 2],
      [t |-> TRUE, c |-> 1, g |-> 0] }

\* the commands of the first or of the second candidate go wrong
BenchEnvs ==
    { [main |-> "none", bad |-> k, go |-> o.go, clean |-> o.clean,
       cold |-> o.cold, warm |-> o.warm] : k \in {1, 2}, o \in BadOutcomes }

InitBench ==
    /\ rootName = N_repo
    /\ fsFiles = {}
    /\ fault = NoFault
    /\ todo = <<>>
    /\ packageMap = <<>>
    /\ \/ /\ \E shapes \in SeqsUpTo(BenchShapes, MaxBenchPkgs) :
               result = BenchResult(shapes)
          /\ maxBenchmarks \in 0..MaxBenchmarks
          /\ env = QuietEnv
       \/ /\ \E shapes \in SeqsUpTo(FailShapes, MaxBenchPkgs) :
               result = BenchResult(shapes)
          /\ maxBenchmarks \in 0..MaxBenchmarks
          /\ env \in BenchEnvs
       \/ /\ result = BenchResult(ScenarioShapes)
          /\ maxBenchmarks = 2
          /\ env = QuietEnv
    /\ scanErr = "nil"
    /\ report = NoReport
    /\ pc = "scanned"
    /\ runBenchmarks = TRUE
    /\ runner = NoRunner
    /\ trace = <<>>
    /\ speedReport = Nil
    /\ jsonBytes = Nil
    /\ outFile = PreviousFile
    /\ exitCode = "none"
    /\ IdleOther

NextBench ==
    \/ Calculate \/ NewRunner \/ RunSelect \/ CmdStart \/ CmdExit \/ Sleep
    \/ LoopNext \/ RunReturn

SpecBench == InitBench /\ [][NextBench]_vars

(***************************************************************************)
(* main: path resolution, the existence check, the scan, Calculate, the    *)
(* optional benchmarks, serialization and the write of the output file.    *)
(***************************************************************************)
\* the existence check that lets every path through
StatCheckNever(outcome) == FALSE

\* main: os.IsNotExist(err) on the error of os.Stat(absRepoPath)
StatCheck(outcome) == outcome = "notexist"

\* a nil pointer and a SpeedReport without rows are both left out
OmitEmptyNoRows(p) == IsNil(p) \/ p.Packages = <<>>

\* encoding/json: omitempty on a pointer field leaves out the nil pointer
OmitEmpty(p) == IsNil(p)

\* the members of the serialized Report
JsonFields(r) ==
    {"timestamp", "repoPath", "summary", "directoryBreakdown", "packages"}
    \cup (IF OmitEmpty(r.SpeedComparison) THEN {} ELSE {"speedComparison"})

\* encoding/json refuses a float64 that is not finite
MarshalErr(r) ==
    IF \/ r.Summary.BazelizationPct.d = 0
       \/ r.Summary.TestCoveragePct.d = 0
       \/ r.Summary.BazelizedTestsPct.d = 0
       \/ \E i \in DOMAIN r.DirectoryBreakdown :
            \/ r.DirectoryBreakdown[i].BazelizationPct.d = 0
            \/ r.DirectoryBreakdown[i].TestCoveragePct.d = 0
    THEN "err" ELSE "nil"

\* json.Marshal / json.MarshalIndent of the Report
Marshal(r) ==
    [f \in JsonFields(r) |->
        CASE f = "timestamp" -> "now"
          [] f = "repoPath" -> r.RepoPath
          [] f = "summary" -> r.Summary
          [] f = "directoryBreakdown" -> r.DirectoryBreakdown
          [] f = "packages" -> r.Packages
          [] OTHER -> [packages |-> r.SpeedComparison.Packages]]

\* os.WriteFile: the file afterwards and the error
WriteFile(file, bytes, outcome) ==
    CASE outcome = "write_open" -> [file |-> file, err |-> "err"]
      [] outcome = "write_io" ->
           [file |-> [kind |-> "partial", writes |-> file.writes + 1], err |-> "err"]
      [] OTHER ->
           [file |-> [kind |-> "report", doc |-> bytes, writes |-> file.writes + 1],
            err |-> "nil"]

\* main: filepath.Abs(repoPath)
MainAbs ==
    /\ pc = "start"
    /\ IF env.main = "abs"
       THEN exitCode' = "1" /\ pc' = "exit"
       ELSE exitCode' = exitCode /\ pc' = "stat"
    /\ UNCHANGED <<treeVars, result, report, maxBenchmarks, runBenchmarks, env, runner,
                   trace, speedReport, jsonBytes, outFile>>
    /\ UNCHANGED otherVars

\* main: os.Stat(absRepoPath), then NewScanner and Scan
MainStat ==
    /\ pc = "stat"
    /\ IF StatCheck(env.main)
       THEN exitCode' = "1" /\ pc' = "exit"
       ELSE exitCode' = exitCode /\ pc' = "walk"
    /\ UNCHANGED <<treeVars, result, report, maxBenchmarks, runBenchmarks, env, runner,
                   trace, speedReport, jsonBytes, outFile>>
    /\ UNCHANGED otherVars

\* main: runBenchmarks is false
SkipBenchmarks ==
    /\ pc = "done" /\ ~runBenchmarks
    /\ pc' = "marshal"
    /\ UNCHANGED <<treeVars, result, report, maxBenchmarks, runBenchmarks, env, runner,
                   trace, speedReport, jsonBytes, outFile, exitCode>>
    /\ UNCHANGED otherVars

\* main: json.MarshalIndent or json.Marshal
MainMarshal ==
    /\ pc = "marshal"
    /\ IF MarshalErr(report) # "nil"
       THEN jsonBytes' = jsonBytes /\ exitCode' = "1" /\ pc' = "exit"
       ELSE jsonBytes' = Marshal(report) /\ exitCode' = exitCode /\ pc' = "write"
    /\ UNCHANGED <<treeVars, result, report, maxBenchmarks, runBenchmarks, env, runner,
                   trace, speedReport, outFile>>
    /\ UNCHANGED otherVars

\* main: os.WriteFile(outputPath, jsonBytes, 0644) and the end of main
MainWrite ==
    /\ pc = "write"
    /\ LET w == WriteFile(outFile, jsonBytes, env.main)
       IN  /\ outFile' = w.file
           /\ exitCode' = IF w.err # "nil" THEN "1" ELSE "0"
    /\ pc' = "exit"
    /\ UNCHANGED <<treeVars, result, report, maxBenchmarks, runBenchmarks, env, runner,
                   trace, speedReport, jsonBytes>>
    /\ UNCHANGED otherVars

\* the trees main is run on: an empty one, one and two packages with tests
\* and go_test targets, and one with an excluded directory
MainTrees ==
    { {},
      { File(<<N_pkg>>, N_a_go, 0), File(<<N_pkg>>, N_a_test_go, 0),
        File(<<N_pkg>>, S_BUILD_bazel, 3) },
      { File(<<N_pkg>>, N_a_test_go, 0), File(<<N_pkg>>, S_BUILD_bazel, 3),
        File(<<N_pkg, N_sub>>, N_a_test_go, 0),
        File(<<N_pkg, N_sub>>, S_BUILD_bazel, 2) },
      { File(<<>>, N_a_go, 0), File(<<N_vendor>>, N_a_go, 0) } }

\* what goes wrong for main itself
MainFaults == {"abs", "notexist", "staterr", "unreadable", "write_open", "write_io"}

MainEnvs ==
    {QuietEnv} \cup {[QuietEnv EXCEPT !.main = m] : m \in MainFaults} \cup BenchEnvs

\* a root that os.Stat cannot reach cannot be reached by the walk either; a
\* root without read permission passes os.Stat and fails when it is listed
RootFault(e) ==
    IF e.main \in {"notexist", "staterr"}
    THEN [path |-> <<>>, kind |-> "lstat"]
    ELSE IF e.main = "unreadable"
         THEN [path |-> <<>>, kind |-> "readdir"] ELSE NoFault

InitMain ==
    /\ rootName = N_repo
    /\ fsFiles \in MainTrees
    /\ env \in MainEnvs
    /\ fault = RootFault(env)
    /\ todo = <<Entry(<<>>, TRUE)>>
    /\ packageMap = <<>>
    /\ result = EmptyResult(rootName)
    /\ scanErr = "nil"
    /\ report = NoReport
    /\ pc = "start"
    /\ maxBenchmarks \in 0..MaxBenchmarks
    /\ runBenchmarks \in BOOLEAN
    /\ runner = NoRunner
    /\ trace = <<>>
    /\ speedReport = Nil
    /\ jsonBytes = Nil
    /\ outFile = PreviousFile
    /\ exitCode = "none"
    /\ IdleOther

NextMain ==
    \/ MainAbs \/ MainStat
    \/ WalkErr \/ WalkSkipDir \/ WalkDir \/ WalkFile \/ ScanReturn
    \/ Calculate
    \/ NewRunner \/ SkipBenchmarks
    \/ RunSelect \/ CmdStart \/ CmdExit \/ Sleep \/ LoopNext \/ RunReturn
    \/ MainMarshal \/ MainWrite

SpecMain == InitMain /\ [][NextMain]_vars

(***************************************************************************)
(* parseBuildFile on its own: one manifest, opened and read to its end.    *)
(***************************************************************************)
MaxPieces == 4

\* what the manifests under parse are put together from: the three keywords,
\* the parenthesis, blanks, line ends with and without a carriage return, a
\* name prefix and an assignment
Pieces ==
    { KW_go_test, KW_go_library, KW_go_binary, <<"(">>, <<" ">>, <<"\n">>,
      <<"\r">>, <<"m", "y", "_">>, <<"x", " ", "=", " ">> }

RECURSIVE Flatten(_)
Flatten(ss) == IF ss = <<>> THEN <<>> ELSE Head(ss) \o Flatten(Tail(ss))

\* a manifest with two go_test rules and one go_library rule
ScenarioManifest ==
    Flatten(<< L_test, <<"x", ")", "\n">>, L_test, <<"x", ")", "\n">>,
               L_library, <<"y", ")", "\n">> >>)

InitParse ==
    /\ rootName = N_repo
    /\ fsFiles = {}
    /\ fault = NoFault
    /\ todo = <<>>
    /\ packageMap = <<>>
    /\ result = EmptyResult(rootName)
    /\ scanErr = "nil"
    /\ report = NoReport
    /\ pc = "parse"
    /\ IdleMain
    /\ IdleDash
    /\ \/ \E ps \in SeqsUpTo(Pieces, MaxPieces) : manifest = Flatten(ps)
       \/ manifest = ScenarioManifest
    /\ targets = [nil |-> TRUE]

\* parseBuildFile(path) returning (targets, nil)
ParseBuildFile ==
    /\ pc = "parse"
    /\ targets' = ParseManifest(manifest)
    /\ pc' = "parsed"
    /\ UNCHANGED <<treeVars, result, report, mainVars, manifest, dashVars>>

NextParse == ParseBuildFile

SpecParse == InitParse /\ [][NextParse]_vars

(***************************************************************************)
(* The dashboard: config.ts (getDataUrl), App (the load of metrics.json    *)
(* and the navigation between the two pages) and PackageExplorer.          *)
(***************************************************************************)
GCS_BUCKET_URL ==
    <<"h", "t", "t", "p", "s", ":", "/", "/", "s", "t", "o", "r", "a", "g", "e", ".",
      "g", "o", "o", "g", "l", "e", "a", "p", "i", "s", ".", "c", "o", "m", "/",
      "b", "a", "z", "e", "l", "-", "m", "e", "t", "r", "i", "c", "s", "-",
      "d", "a", "t", "a">>

\* `?v=${new Date().toISOString().slice(0, 13)}`, the hour the module was loaded
CACHE_BUST == <<"?", "v", "=", "2", "0", "2", "5", "-", "0", "1", "-", "0", "1", "T", "0", "0">>

S_ai_fix_metrics_json ==
    <<"a", "i", "-", "f", "i", "x", "-", "m", "e", "t", "r", "i", "c", "s", ".",
      "j", "s", "o", "n">>

\* an environment variable that is not set, and one that is
Unset == [set |-> FALSE]
SetTo(v) == [set |-> TRUE, value |-> v]

\* s.replace(/\/+$/, '') leaving the slashes in place
StripTrailingSlashesNot(s) == s

\* s.replace(/\/+$/, ''): s without the slashes it ends in
RECURSIVE StripTrailingSlashes(_)
StripTrailingSlashes(s) ==
    IF s # <<>> /\ s[Len(s)] = "/" THEN StripTrailingSlashes(SubSeq(s, 1, Len(s) - 1))
    ELSE s

\* JavaScript truthiness of a value that is undefined or a string
TruthyString(v) == v.set /\ v.value # <<>>

\* config.ts getDataUrl
getDataUrl(metaEnv, filename) ==
    LET base == IF metaEnv.VITE_DATA_BASE_URL.set
                THEN SetTo(StripTrailingSlashes(metaEnv.VITE_DATA_BASE_URL.value))
                ELSE Unset
    IN  IF TruthyString(base)
        THEN base.value \o <<"/">> \o filename \o CACHE_BUST
        ELSE IF metaEnv.DEV
             THEN <<"/">> \o filename
             ELSE GCS_BUCKET_URL \o <<"/">> \o filename \o CACHE_BUST

\* AIFixDashboard's mount effect: the URL handed to fetch
AIFixFetchUrl(metaEnv) == [url |-> getDataUrl(metaEnv, S_ai_fix_metrics_json)]

\* the values VITE_DATA_BASE_URL is built with
BaseUrls ==
    { Unset, SetTo(<<>>), SetTo(<<"/">>), SetTo(<<"/", "/">>),
      SetTo(<<"/", "d">>), SetTo(<<"/", "d", "/">>), SetTo(<<"/", "d", "/", "/">>),
      SetTo(<<"h", ":", "/", "/", "c", "/", "d", "/">>) }

\* PackageExplorer: const pageSize = 20
pageSize == 20

\* the largest number of packages of the reports shown
MaxPackages == 21

PathLetters == <<"a", "b", "c", "d", "e", "f", "g", "h">>

\* the i-th PackageInfo of a report: every second one has a manifest, every
\* third one test files, every fourth one go_test targets
PackageAt(i) ==
    [path |-> <<"p", "k", "g", "/", PathLetters[(i \div 8) + 1], PathLetters[(i % 8) + 1]>>,
     hasBuildFile |-> i % 2 = 0,
     hasTestFiles |-> i % 3 = 0,
     goTestTargetCount |-> IF i % 4 = 0 THEN 2 ELSE 0]

\* a MetricsReport with n packages, in descending order of their number
ReportOf(n) ==
    [repoPath |-> <<"/", "r", "e", "p", "o">>,
     packages |-> [i \in 1..n |-> PackageAt(n + 1 - i)]]

\* no package, one, a full page, and the largest
ListSizes == {0, 1, pageSize, MaxPackages}

\* what res.json() resolves to: null or a report
MetricsData == {Nil} \cup {ReportOf(n) : n \in ListSizes}

\* how the promise chain of the fetch is rejected: a response that is not
\* ok, a rejected fetch, a body that is not JSON
FetchFailures == {"status", "network", "json"}

\* err.message in the catch handler
ErrorMessage(cause) ==
    CASE cause = "status" -> "Failed to load metrics.json"
      [] cause = "network" -> "Failed to fetch"
      [] OTHER -> "Unexpected token"

\* JavaScript truthiness of error: string | null
TruthyError(e) == ~IsNil(e) /\ e.message # ""

\* BuildMetricsPage testing the error only, not the missing metrics
ViewErrorOnly ==
    IF route = "ai-fix" THEN "ai-fix"
    ELSE IF loading THEN "loading"
    ELSE IF TruthyError(error) THEN "error"
    ELSE "metrics"

\* what App renders in <main>
View ==
    IF route = "ai-fix" THEN "ai-fix"
    ELSE IF loading THEN "loading"
    ELSE IF TruthyError(error) \/ IsNil(metrics) THEN "error"
    ELSE "metrics"

\* String.prototype.toLowerCase on the letters used
LowerOf(c) ==
    CASE c = "P" -> "p" [] c = "K" -> "k" [] c = "G" -> "g" [] c = "A" -> "a"
      [] c = "B" -> "b" [] OTHER -> c

toLowerCase(str) == [i \in 1..Len(str) |-> LowerOf(str[i])]

\* String.prototype.includes
includes(str, sub) ==
    \E i \in 1..(Len(str) - Len(sub) + 1) : SubSeq(str, i, i + Len(sub) - 1) = sub

\* the texts typed into the search box
Searches ==
    { <<>>, <<"a">>, <<"P", "K", "G", "/">>, <<"/", "b">>, <<"z">> }

FilterOptions == {"all", "bazelized", "not-bazelized", "with-tests", "without-tests"}

\* the callback of packages.filter
KeepsPackage(pkg, flt, srch) ==
    IF srch # <<>> /\ ~includes(toLowerCase(pkg.path), toLowerCase(srch)) THEN FALSE
    ELSE CASE flt = "bazelized" -> pkg.hasBuildFile
           [] flt = "not-bazelized" -> ~pkg.hasBuildFile
           [] flt = "with-tests" -> pkg.hasTestFiles
           [] flt = "without-tests" -> ~pkg.hasTestFiles
           [] OTHER -> TRUE

\* packages.filter: the packages the callback keeps, in their order
FilterPackages(pkgs, flt, srch) ==
    SelectSeq(pkgs, LAMBDA pkg : KeepsPackage(pkg, flt, srch))

getSortPriority(pkg) ==
    IF pkg.hasBuildFile /\ pkg.goTestTargetCount > 0 THEN 0
    ELSE IF pkg.hasBuildFile /\ pkg.hasTestFiles THEN 1
    ELSE IF pkg.hasBuildFile THEN 2
    ELSE 3

\* the sort comparator is negative: a goes before b
ComesBefore(a, b) ==
    IF getSortPriority(a) # getSortPriority(b)
    THEN getSortPriority(a) < getSortPriority(b)
    ELSE StrLess(a.path, b.path)

\* Array.prototype.sort is stable: x goes behind what does not come after it
RECURSIVE InsertPackage(_, _)
InsertPackage(sorted, x) ==
    IF sorted = <<>> THEN <<x>>
    ELSE IF ComesBefore(x, Head(sorted)) THEN <<x>> \o sorted
    ELSE <<Head(sorted)>> \o InsertPackage(Tail(sorted), x)

\* filtered.sort(comparator): the elements inserted one after the other
RECURSIVE SortPackages(_, _)
SortPackages(pkgs, sorted) ==
    IF pkgs = <<>> THEN sorted
    ELSE SortPackages(Tail(pkgs), InsertPackage(sorted, Head(pkgs)))

\* PackageExplorer: filteredPackages
filteredPackagesOf(pkgs, flt, srch) == SortPackages(FilterPackages(pkgs, flt, srch), <<>>)

\* Array.prototype.slice(start, end) with 0 <= start <= end
slice(arr, start, end) ==
    SubSeq(arr, start + 1, IF end <= Len(arr) THEN end ELSE Len(arr))

\* Math.ceil(n / pageSize) rounding down instead
totalPagesFloor(n) == n \div pageSize

\* Math.ceil(n / pageSize)
totalPagesOf(n) == (n + pageSize - 1) \div pageSize

\* PackageExplorer is rendered, with metrics.packages as its packages prop
ExplorerMounted == View = "metrics"

filteredPackages == filteredPackagesOf(metrics.packages, filter, search)

totalPages == totalPagesOf(Len(filteredPackages))

paginatedPackages == slice(filteredPackages, page * pageSize, (page + 1) * pageSize)

InitDash ==
    /\ rootName = N_repo
    /\ fsFiles = {}
    /\ fault = NoFault
    /\ todo = <<>>
    /\ packageMap = <<>>
    /\ result = EmptyResult(rootName)
    /\ scanErr = "nil"
    /\ report = NoReport
    /\ pc = "dashboard"
    /\ IdleMain
    /\ IdleParse
    /\ importMetaEnv \in [VITE_DATA_BASE_URL : BaseUrls, DEV : BOOLEAN]
    /\ route \in {"metrics", "ai-fix"}
    /\ dataUrl = IF route = "ai-fix" THEN AIFixFetchUrl(importMetaEnv) ELSE Nil
    /\ fetch = "pending"
    /\ metrics = Nil
    /\ loading = TRUE
    /\ error = Nil
    /\ filter = "all"
    /\ search = <<>>
    /\ page = 0

\* App: the second then of the fetch, setMetrics(data) and setLoading(false)
ThenData ==
    /\ pc = "dashboard" /\ fetch = "pending"
    /\ \E data \in MetricsData : metrics' = data
    /\ loading' = FALSE
    /\ fetch' = "settled"
    /\ UNCHANGED <<scanVars, mainVars, parseVars, importMetaEnv, dataUrl, error, route,
                   filter, search, page>>

\* App: the catch of the fetch, setError(err.message) and setLoading(false)
CatchError ==
    /\ pc = "dashboard" /\ fetch = "pending"
    /\ \E cause \in FetchFailures : error' = [message |-> ErrorMessage(cause)]
    /\ loading' = FALSE
    /\ fetch' = "settled"
    /\ UNCHANGED <<scanVars, mainVars, parseVars, importMetaEnv, dataUrl, metrics, route,
                   filter, search, page>>

\* App: navigateTo and the hashchange handler; the page left is unmounted and
\* its state is gone, AIFixDashboard fetches its data when it is mounted
Navigate ==
    /\ pc = "dashboard"
    /\ \E target \in {"metrics", "ai-fix"} :
         /\ target # route
         /\ route' = target
         /\ dataUrl' = IF target = "ai-fix" THEN AIFixFetchUrl(importMetaEnv) ELSE dataUrl
    /\ filter' = "all"
    /\ search' = <<>>
    /\ page' = 0
    /\ UNCHANGED <<scanVars, mainVars, parseVars, importMetaEnv, fetch, metrics, loading,
                   error>>

\* PackageExplorer: onChange of the search box
SearchChange ==
    /\ pc = "dashboard" /\ ExplorerMounted
    /\ \E value \in Searches : search' = value
    /\ page' = 0
    /\ UNCHANGED <<scanVars, mainVars, parseVars, importMetaEnv, dataUrl, fetch, metrics,
                   loading, error, route, filter>>

\* PackageExplorer: onChange of the filter select
FilterChange ==
    /\ pc = "dashboard" /\ ExplorerMounted
    /\ \E value \in FilterOptions : filter' = value
    /\ page' = 0
    /\ UNCHANGED <<scanVars, mainVars, parseVars, importMetaEnv, dataUrl, fetch, metrics,
                   loading, error, route, search>>

\* PackageExplorer: the Prev button, shown with the pager and enabled off page 0
PrevClick ==
    /\ pc = "dashboard" /\ ExplorerMounted
    /\ totalPages > 1 /\ page # 0
    /\ page' = (IF page - 1 >= 0 THEN page - 1 ELSE 0)
    /\ UNCHANGED <<scanVars, mainVars, parseVars, importMetaEnv, dataUrl, fetch, metrics,
                   loading, error, route, filter, search>>

\* PackageExplorer: the Next button, shown with the pager and enabled before
\* the last page
NextClick ==
    /\ pc = "dashboard" /\ ExplorerMounted
    /\ totalPages > 1 /\ ~(page >= totalPages - 1)
    /\ page' = (IF page + 1 <= totalPages - 1 THEN page + 1 ELSE totalPages - 1)
    /\ UNCHANGED <<scanVars, mainVars, parseVars, importMetaEnv, dataUrl, fetch, metrics,
                   loading, error, route, filter, search>>

NextDash ==
    \/ ThenData \/ CatchError \/ Navigate
    \/ SearchChange \/ FilterChange \/ PrevClick \/ NextClick

SpecDash == InitDash /\ [][NextDash]_vars

(***************************************************************************)
(* Notions the properties are stated in.                                   *)
(***************************************************************************)
\* Scan has returned
Scanned == pc \in {"scanned", "done"}

S_git == <<".", "g", "i", "t">>
S_bazel_bin == <<"b", "a", "z", "e", "l", "-", "b", "i", "n">>
S_bazel_out == <<"b", "a", "z", "e", "l", "-", "o", "u", "t">>
S_bazel_testlogs == <<"b", "a", "z", "e", "l", "-", "t", "e", "s", "t", "l", "o", "g", "s">>
S_node_modules == <<"n", "o", "d", "e", "_", "m", "o", "d", "u", "l", "e", "s">>
S_cache == <<".", "c", "a", "c", "h", "e">>

\* a directory name the scan must prune
PrunedName(n) ==
    \/ n # <<>> /\ Head(n) = "."
    \/ n \in {S_git, S_bazel_bin, S_bazel_out, S_bazel_testlogs,
              S_node_modules, S_cache, N_vendor}
    \/ HasPrefix(n, S_bazel_dash)

DirName(d) == IF d = <<>> THEN rootName ELSE Last(d)

\* d is a pruned directory or lies below one
InPruned(d) == \E k \in 0..Len(d) : PrunedName(DirName(SubSeq(d, 1, k)))

\* the walk reports an error for the entry at path p
Failing(p) == fault.kind \in {"lstat", "readdir"} /\ fault.path = p

\* d is a directory the walk reports an error for, or lies below one
InFailed(d) == \E k \in 0..Len(d) : Failing(SubSeq(d, 1, k))

\* the files the walk hands to the callback without an error
Visible(f) == ~InPruned(f.dir) /\ ~InFailed(f.dir) /\ ~Failing(FilePath(f))

VisibleFiles == {f \in fsFiles : Visible(f)}

EndsInGo(f) == HasSuffix(f.name, S_go)
IsManifest(f) == f.name \in {S_BUILD, S_BUILD_bazel}
IsTest(f) == HasSuffix(f.name, S_test_go)
IsSource(f) == EndsInGo(f) /\ ~IsTest(f)

\* the directories of the packages in ScanResult.Packages
RetainedDirs ==
    {d \in DirsOf(fsFiles) :
       \E i \in 1..Len(result.Packages) : result.Packages[i].Path = <<rootName>> \o d}

PackageSet(sr) == {sr.Packages[i] : i \in 1..Len(sr.Packages)}

\* the callback applied to the files of visits, in that order
RECURSIVE FoldVisit(_, _, _, _)
FoldVisit(visits, st, root, flt) ==
    IF visits = <<>> THEN st
    ELSE FoldVisit(Tail(visits), VisitFile(st, Head(visits), root, flt), root, flt)

\* the files of a tree in the order of a lexical depth-first walk that prunes
RECURSIVE WalkList(_, _, _)
WalkList(files, entries, root) ==
    IF entries = <<>> THEN <<>>
    ELSE LET e == Head(entries)
         IN  (IF ~e.isDir THEN <<FileAt(files, e.path)>>
              ELSE IF PrunedName(BaseName(e, root)) THEN <<>>
              ELSE WalkList(files, Children(files, e.path), root))
             \o WalkList(files, Tail(entries), root)

\* the scan of a tree all of whose entries can be read
RefScan(files, root, flt) ==
    FoldVisit(WalkList(files, <<Entry(<<>>, TRUE)>>, root),
              [packageMap |-> <<>>, result |-> EmptyResult(root)], root, flt)

\* the packages of a package map that have a source or a test file
KeptOf(pm) ==
    {pm[d] : d \in {x \in DOMAIN pm : pm[x].GoFileCount > 0 \/ pm[x].TestFileCount > 0}}

Totals(sr) == <<sr.TotalBUILDs, sr.TotalGoFiles, sr.TotalTests>>

(***************************************************************************)
(* C1                                                                      *)
(***************************************************************************)
\* C1: once Scan has returned, every package in Packages has a source or a test
\* file; every directory that is not pruned and directly holds a file ending in
\* .go which the walk delivered is in Packages exactly once (by its path); and
\* no other directory (one holding only manifests or other files) is in it.
C1_PackagesAreGoDirs ==
    Scanned =>
      /\ \A i \in 1..Len(result.Packages) :
           result.Packages[i].GoFileCount > 0 \/ result.Packages[i].TestFileCount > 0
      /\ \A d \in DirsOf(fsFiles) :
           Cardinality({i \in 1..Len(result.Packages) :
                          result.Packages[i].Path = <<rootName>> \o d})
             = IF \E f \in VisibleFiles : f.dir = d /\ EndsInGo(f) THEN 1 ELSE 0
      /\ \A i \in 1..Len(result.Packages) :
           \E d \in DirsOf(fsFiles) : result.Packages[i].Path = <<rootName>> \o d

\* a scan that kept a package and dropped a directory holding only a manifest
C1_Witness ==
    /\ Scanned
    /\ Len(result.Packages) >= 1
    /\ \E f \in VisibleFiles :
         /\ IsManifest(f)
         /\ f.dir \notin RetainedDirs
         /\ f.dir \in DOMAIN packageMap

(***************************************************************************)
(* C2                                                                      *)
(***************************************************************************)
\* C2: at every point of the scan, nothing below a pruned directory (name
\* starting with ".", in the deny-set, or starting with "bazel-") is waiting to
\* be visited or has a package, and the three totals count only files that do
\* not lie in or below a pruned directory.
C2_PrunedSubtreesUntouched ==
    /\ \A i \in 1..Len(todo) :
         todo[i].path # <<>> => ~InPruned(Front(todo[i].path))
    /\ \A d \in DOMAIN packageMap : ~InPruned(d)
    /\ \A i \in 1..Len(result.Packages) :
         \E d \in DirsOf(fsFiles) :
           result.Packages[i].Path = <<rootName>> \o d /\ ~InPruned(d)
    /\ result.TotalBUILDs
         <= Cardinality({f \in fsFiles : IsManifest(f) /\ ~InPruned(f.dir)})
    /\ result.TotalGoFiles
         <= Cardinality({f \in fsFiles : IsSource(f) /\ ~InPruned(f.dir)})
    /\ result.TotalTests
         <= Cardinality({f \in fsFiles : IsTest(f) /\ ~InPruned(f.dir)})

\* a finished scan of a tree with a file two levels below a pruned directory
\* next to a counted source file
C2_Witness ==
    /\ Scanned
    /\ ~PrunedName(rootName)
    /\ result.TotalGoFiles >= 1
    /\ \E f \in fsFiles : Len(f.dir) = 2 /\ PrunedName(f.dir[1])

(***************************************************************************)
(* C3                                                                      *)
(***************************************************************************)
\* the tree without the entry the walk reports an error for
WithoutFailing ==
    {f \in fsFiles :
       ~\E k \in 0..Len(FilePath(f)) : Failing(SubSeq(FilePath(f), 1, k))}

\* C3: when the walk reports an error for one entry, Scan does not fail, and
\* once it has returned its totals and packages are those of a scan of the
\* tree without that entry.
C3_FailingEntrySkipped ==
    /\ scanErr = "nil" /\ pc # "failed"
    /\ (Scanned /\ fault.kind \in {"lstat", "readdir"}) =>
         LET ref == RefScan(WithoutFailing, rootName, NoFault)
         IN  /\ Totals(result) = Totals(ref.result)
             /\ PackageSet(result) = KeptOf(ref.packageMap)
             /\ Len(result.Packages) = Cardinality(KeptOf(ref.packageMap))

\* a finished scan that skipped an unreadable source file and still found a package
C3_Witness ==
    /\ Scanned
    /\ fault.kind = "lstat"
    /\ \E f \in fsFiles :
         /\ fault.path = FilePath(f) /\ IsSource(f) /\ ~InPruned(f.dir)
         /\ f.dir \notin RetainedDirs
    /\ Len(result.Packages) >= 1

(***************************************************************************)
(* C4                                                                      *)
(***************************************************************************)
\* f is a manifest the walk delivers and parseBuildFile fails on
FailingManifest(f) ==
    fault.kind \in {"open", "read"} /\ fault.path = FilePath(f) /\ Visible(f)

RuleCounts(pkg) == <<pkg.GoTestTargets, pkg.GoLibraryTargets, pkg.GoBinaryTargets>>

TargetCounts(t) == <<t.goTests, t.goLibs, t.goBins>>

\* C4 as claimed: when a manifest cannot be opened or read, Scan does not fail,
\* the directory's package has HasBuildFile and rule counts 0, 0, 0, the
\* manifest is counted in TotalBUILDs, and all other packages are as without it.
C4_ZeroRuleCounts ==
    Scanned =>
      \A f \in fsFiles : FailingManifest(f) =>
        LET ref == RefScan(fsFiles \ {f}, rootName, NoFault)
        IN  /\ scanErr = "nil"
            /\ f.dir \in DOMAIN packageMap
            /\ packageMap[f.dir].HasBuildFile
            /\ RuleCounts(packageMap[f.dir]) = <<0, 0, 0>>
            /\ result.TotalBUILDs = ref.result.TotalBUILDs + 1
            /\ \A d \in (DOMAIN packageMap \cup DOMAIN ref.packageMap) \ {f.dir} :
                 /\ d \in DOMAIN packageMap /\ d \in DOMAIN ref.packageMap
                 /\ packageMap[d] = ref.packageMap[d]

\* C4 as amended: the failing manifest sets HasBuildFile and is counted in
\* TotalBUILDs but leaves the rule counts alone; they are those of the
\* directory's other manifest when that one was parsed, and 0, 0, 0 otherwise.
C4_FailedManifestAddsNoCounts ==
    Scanned =>
      \A f \in fsFiles : FailingManifest(f) =>
        LET ref == RefScan(fsFiles \ {f}, rootName, NoFault)
            others == {g \in fsFiles \ {f} : g.dir = f.dir /\ IsManifest(g)}
        IN  /\ scanErr = "nil"
            /\ f.dir \in DOMAIN packageMap
            /\ packageMap[f.dir].HasBuildFile
            /\ IF others = {}
               THEN RuleCounts(packageMap[f.dir]) = <<0, 0, 0>>
               ELSE \A g \in others :
                      RuleCounts(packageMap[f.dir])
                        = TargetCounts(parseBuildFile(g, NoFault).targets)
            /\ packageMap[f.dir].GoFileCount
                 = Cardinality({g \in fsFiles : g.dir = f.dir /\ IsSource(g)})
            /\ packageMap[f.dir].TestFileCount
                 = Cardinality({g \in fsFiles : g.dir = f.dir /\ IsTest(g)})
            /\ result.TotalBUILDs = ref.result.TotalBUILDs + 1
            /\ \A d \in (DOMAIN packageMap \cup DOMAIN ref.packageMap) \ {f.dir} :
                 /\ d \in DOMAIN packageMap /\ d \in DOMAIN ref.packageMap
                 /\ packageMap[d] = ref.packageMap[d]

\* a finished scan in which a manifest could not be read, its directory is a
\* package, and another directory is a package too
C4_Witness ==
    /\ Scanned
    /\ \E f \in fsFiles :
         /\ FailingManifest(f) /\ fault.kind = "read"
         /\ f.dir \in RetainedDirs
         /\ RuleCounts(packageMap[f.dir]) = <<0, 0, 0>>
    /\ Len(result.Packages) >= 2

(***************************************************************************)
(* C5                                                                      *)
(***************************************************************************)
\* C5 as claimed: the three totals count exactly the manifest, source and test
\* files lying in directories retained in Packages.
C5_TotalsOnlyRetained ==
    Scanned =>
      /\ result.TotalBUILDs
           = Cardinality({f \in VisibleFiles : IsManifest(f) /\ f.dir \in RetainedDirs})
      /\ result.TotalGoFiles
           = Cardinality({f \in VisibleFiles : IsSource(f) /\ f.dir \in RetainedDirs})
      /\ result.TotalTests
           = Cardinality({f \in VisibleFiles : IsTest(f) /\ f.dir \in RetainedDirs})

\* C5 as amended: TotalGoFiles and TotalTests count the source and test files of
\* the retained directories; TotalBUILDs counts every manifest the walk
\* delivered, also those of directories the filter dropped.
C5_TotalsCountVisitedFiles ==
    Scanned =>
      /\ result.TotalBUILDs = Cardinality({f \in VisibleFiles : IsManifest(f)})
      /\ result.TotalGoFiles
           = Cardinality({f \in VisibleFiles : IsSource(f) /\ f.dir \in RetainedDirs})
      /\ result.TotalTests
           = Cardinality({f \in VisibleFiles : IsTest(f) /\ f.dir \in RetainedDirs})

\* a finished scan whose manifest total exceeds the manifests of the retained
\* directories, next to a counted test file
C5_Witness ==
    /\ Scanned
    /\ result.TotalTests >= 1
    /\ result.TotalBUILDs
         > Cardinality({f \in VisibleFiles : IsManifest(f) /\ f.dir \in RetainedDirs})

(***************************************************************************)
(* C6                                                                      *)
(***************************************************************************)
NoScan == [packageMap |-> <<>>, result |-> EmptyResult(rootName)]

StripRules(pkg) ==
    [pkg EXCEPT !.GoTestTargets = 0, !.GoLibraryTargets = 0, !.GoBinaryTargets = 0]

Calculated == pc = "done"

InputIdx == 1..Len(result.Packages)

NumWithBuild == Cardinality({i \in InputIdx : result.Packages[i].HasBuildFile})

NumWithTests == Cardinality({i \in InputIdx : result.Packages[i].HasTestFiles})

NumWithBazelizedTests ==
    Cardinality({i \in InputIdx :
                   result.Packages[i].HasTestFiles /\ result.Packages[i].GoTestTargets > 0})

\* the percentage p is 100 * a / b, b being positive
PctIs(p, a, b) == p.d > 0 /\ p.n * b = 100 * a * p.d

PctIsZero(p) == p.d > 0 /\ p.n = 0

\* 0 <= p <= 100
PctInRange(p) == p.d > 0 /\ 0 <= p.n /\ p.n <= 100 * p.d

Breakdown == report.DirectoryBreakdown

(***************************************************************************)
(* C7                                                                      *)
(***************************************************************************)
\* C7: for every ScanResult, bazelizationPct = 100 * packagesWithBuild /
\* totalPackages and testCoveragePct = 100 * packagesWithTests / totalPackages,
\* both 0 when there is no package; bazelizedTestsPct = 100 * (packages with
\* test files and a go_test target) / packagesWithTests, 0 when no package has
\* tests; no divisor is 0.
C7_SummaryPercentages ==
    Calculated =>
      LET s == report.Summary
      IN  /\ s.TotalPackages = Len(result.Packages)
          /\ s.PackagesWithBuild = NumWithBuild
          /\ s.PackagesWithTests = NumWithTests
          /\ IF s.TotalPackages > 0
             THEN /\ PctIs(s.BazelizationPct, s.PackagesWithBuild, s.TotalPackages)
                  /\ PctIs(s.TestCoveragePct, s.PackagesWithTests, s.TotalPackages)
             ELSE /\ PctIsZero(s.BazelizationPct)
                  /\ PctIsZero(s.TestCoveragePct)
          /\ IF s.PackagesWithTests > 0
             THEN PctIs(s.BazelizedTestsPct, NumWithBazelizedTests, s.PackagesWithTests)
             ELSE PctIsZero(s.BazelizedTestsPct)

\* a report over packages some of which have a manifest, some tests, and one
\* go_test targets without test files
C7_Witness ==
    /\ Calculated
    /\ 0 < NumWithBuild /\ NumWithBuild < Len(result.Packages)
    /\ 0 < NumWithBazelizedTests /\ NumWithBazelizedTests < NumWithTests
    /\ \E i \in InputIdx :
         ~result.Packages[i].HasTestFiles /\ result.Packages[i].GoTestTargets > 0

(***************************************************************************)
(* C8                                                                      *)
(***************************************************************************)
\* C8: for every ScanResult, the three summary percentages and both percentages
\* of every breakdown entry lie in [0, 100]: each count in a numerator is
\* between 0 and the count in its denominator.
C8_PercentagesInRange ==
    Calculated =>
      LET s == report.Summary
      IN  /\ PctInRange(s.BazelizationPct)
          /\ PctInRange(s.TestCoveragePct)
          /\ PctInRange(s.BazelizedTestsPct)
          /\ 0 <= s.PackagesWithBuild /\ s.PackagesWithBuild <= s.TotalPackages
          /\ 0 <= s.PackagesWithTests /\ s.PackagesWithTests <= s.TotalPackages
          /\ \A i \in 1..Len(Breakdown) :
               /\ PctInRange(Breakdown[i].BazelizationPct)
               /\ PctInRange(Breakdown[i].TestCoveragePct)
               /\ 0 <= Breakdown[i].BazelizedPackages
               /\ Breakdown[i].BazelizedPackages <= Breakdown[i].TotalPackages
               /\ 0 <= Breakdown[i].PackagesWithTests
               /\ Breakdown[i].PackagesWithTests <= Breakdown[i].TotalPackages

\* a report with a fully bazelized group that has no tested package, and a
\* group that is not bazelized at all
C8_Witness ==
    /\ Calculated
    /\ \E i, j \in 1..Len(Breakdown) :
         /\ Breakdown[i].BazelizedPackages = Breakdown[i].TotalPackages
         /\ Breakdown[i].PackagesWithTests = 0
         /\ Breakdown[j].BazelizedPackages = 0
         /\ Breakdown[j].PackagesWithTests > 0

(***************************************************************************)
(* C9                                                                      *)
(***************************************************************************)
BreakdownSum(field(_)) ==
    SumSeq([i \in 1..Len(Breakdown) |-> field(Breakdown[i])])

TotalPackagesOf(dm) == dm.TotalPackages
BazelizedPackagesOf(dm) == dm.BazelizedPackages
PackagesWithTestsOf(dm) == dm.PackagesWithTests

\* C9: in every report the totalPackages of the breakdown entries sum to
\* summary.totalPackages, their bazelizedPackages to summary.packagesWithBuild
\* and their packagesWithTests to summary.packagesWithTests.
C9_BreakdownSums ==
    Calculated =>
      /\ BreakdownSum(TotalPackagesOf) = report.Summary.TotalPackages
      /\ BreakdownSum(BazelizedPackagesOf) = report.Summary.PackagesWithBuild
      /\ BreakdownSum(PackagesWithTestsOf) = report.Summary.PackagesWithTests

\* a report over three packages in two groups
C9_Witness ==
    /\ Calculated
    /\ report.Summary.TotalPackages = 3
    /\ Len(Breakdown) = 2
    /\ report.Summary.PackagesWithBuild >= 1
    /\ report.Summary.PackagesWithTests >= 1

(***************************************************************************)
(* C10                                                                     *)
(***************************************************************************)
\* the position in Packages at which the group of that name is first met
FirstSeen(name) ==
    CHOOSE i \in InputIdx :
      /\ TopDirOf(result.Packages[i]) = name
      /\ \A j \in 1..(i - 1) : TopDirOf(result.Packages[j]) # name

\* C10 as claimed: the breakdown is ordered by totalPackages descending, and
\* entries with equal totalPackages are in the order in which their groups were
\* first met in Packages.
C10_TiesInInsertionOrder ==
    Calculated =>
      \A i, j \in 1..Len(Breakdown) :
        i < j =>
          \/ Breakdown[i].TotalPackages > Breakdown[j].TotalPackages
          \/ /\ Breakdown[i].TotalPackages = Breakdown[j].TotalPackages
             /\ FirstSeen(Breakdown[i].Name) < FirstSeen(Breakdown[j].Name)

\* C10 as amended: the breakdown is ordered by totalPackages descending; the
\* order of entries with equal totalPackages is not determined.
C10_Descending ==
    Calculated =>
      \A i, j \in 1..Len(Breakdown) :
        i < j => Breakdown[i].TotalPackages >= Breakdown[j].TotalPackages

\* a report in which the larger group was met after the smaller one
C10_Witness ==
    /\ Calculated
    /\ \E i, j \in 1..Len(Breakdown) :
         /\ i < j
         /\ Breakdown[i].TotalPackages > Breakdown[j].TotalPackages
         /\ FirstSeen(Breakdown[i].Name) > FirstSeen(Breakdown[j].Name)

RunDone == pc = "marshal" /\ runBenchmarks

Rows == IF IsNil(speedReport) THEN <<>> ELSE speedReport.Packages

\* the package fulfils the three conditions of eligibility
Eligible(pkg) ==
    pkg.HasTestFiles = TRUE /\ pkg.GoTestTargets >= 1
    /\ pkg.TestFileCount >= 1 /\ pkg.TestFileCount <= 20

EligibleIdx == {i \in DOMAIN result.Packages : Eligible(result.Packages[i])}

\* the packages a command was issued for
CommandedIdx == {trace[k].pkg : k \in DOMAIN trace}

\* the packages a row was emitted for
RowIdx == {i \in DOMAIN result.Packages :
              \E k \in DOMAIN Rows : Rows[k].Path = result.Packages[i].RelPath}

Min(a, b) == IF a <= b THEN a ELSE b

(***************************************************************************)
(* C12                                                                     *)
(***************************************************************************)
\* C12: every package a command is issued for or a row is emitted for has
\* test files, at least one go_test target and between 1 and 20 test files.
C12_OnlyEligibleBenchmarked ==
    \A i \in CommandedIdx \cup RowIdx : Eligible(result.Packages[i])

C12_Witness ==
    /\ RunDone
    /\ Rows # <<>>
    /\ \E i \in DOMAIN result.Packages :
          /\ result.Packages[i].GoTestTargets = 0
          /\ result.Packages[i].HasTestFiles
          /\ i \notin CommandedIdx \cup RowIdx

RowCount(k) ==
    LET i == CHOOSE i \in DOMAIN result.Packages :
                 result.Packages[i].RelPath = Rows[k].Path
    IN  result.Packages[i].TestFileCount

\* the packages of the go test commands, in the order the commands were started
NativeOrder ==
    SelectSeq(trace, LAMBDA e : e.ev = "start" /\ e.cmd = "go test")

\* C14: with E eligible packages and the Runner's maximum N, once Run has
\* returned exactly min(N, E) candidates were benchmarked, no eligible package
\* left out has fewer test files than a benchmarked one, the candidates were
\* processed in non-decreasing test-file-count order and the rows are in that
\* same order.
C14_SmallestFirst ==
    RunDone =>
      LET n == Min(runner.maxTests, Cardinality(EligibleIdx))
      IN  /\ Len(Rows) = n
          /\ Len(NativeOrder) = n
          /\ Cardinality(RowIdx) = n
          /\ \A k \in 1..n :
                Rows[k].Path = result.Packages[NativeOrder[k].pkg].RelPath
          /\ \A k \in 1..n, l \in 1..n : k < l => RowCount(k) <= RowCount(l)
          /\ \A i \in EligibleIdx \ RowIdx, k \in 1..n :
                RowCount(k) <= result.Packages[i].TestFileCount

\* the scenario: counts 5, 1, 3, 8, 2 and maximum 2 give counts 1 then 2
C14_Witness ==
    /\ RunDone
    /\ maxBenchmarks = 2
    /\ [i \in DOMAIN result.Packages |-> result.Packages[i].TestFileCount]
         = <<5, 1, 3, 8, 2>>
    /\ Len(Rows) = 2
    /\ RowCount(1) = 1 /\ RowCount(2) = 2

(***************************************************************************)
(* C15                                                                     *)
(***************************************************************************)
\* what one candidate adds to the trace
Protocol ==
    << [ev |-> "start", cmd |-> "go test"], [ev |-> "exit", cmd |-> "go test"],
       [ev |-> "start", cmd |-> "bazel clean"], [ev |-> "exit", cmd |-> "bazel clean"],
       [ev |-> "sleep", cmd |-> "sleep"],
       [ev |-> "start", cmd |-> "bazel test"], [ev |-> "exit", cmd |-> "bazel test"],
       [ev |-> "start", cmd |-> "bazel test"], [ev |-> "exit", cmd |-> "bazel test"] >>

\* C15: the commands form one sequential trace: every command exits before
\* the next starts, and candidate after candidate, in selection order, the
\* trace holds native test, cache clean and pause, cold bazel test, warm bazel
\* test; once Run has returned every candidate has its four commands.
C15_SequentialProtocol ==
    /\ \A k \in DOMAIN trace :
          LET c == ((k - 1) \div Len(Protocol)) + 1
              p == Protocol[((k - 1) % Len(Protocol)) + 1]
          IN  /\ trace[k].ev = p.ev /\ trace[k].cmd = p.cmd
              /\ trace[k].cand = c
              /\ c \in DOMAIN runner.candidates
              /\ trace[k].pkg = runner.candidates[c]
    /\ (~IsNil(runner) /\ runner.running) <=>
          (trace # <<>> /\ trace[Len(trace)].ev = "start")
    /\ RunDone => Len(trace) = Len(Protocol) * Len(runner.candidates)

C15_Witness ==
    /\ RunDone
    /\ Len(runner.candidates) = 2
    /\ Len(trace) = 2 * Len(Protocol)
    /\ env.bad = 1 /\ env.cold = "fail"

(***************************************************************************)
(* C16                                                                     *)
(***************************************************************************)
\* the candidates whose native test command could not be launched
NotLaunched ==
    {trace[k].cand : k \in {l \in DOMAIN trace :
        trace[l].ev = "exit" /\ trace[l].cmd = "go test"
        /\ trace[l].outcome = "nostart"}}

\* C16: for a candidate whose native test command cannot be launched no row
\* is emitted and no cache clean or bazel test is run, and the next candidate
\* is benchmarked.
C16_LaunchFailureDropsCandidate ==
    \A c \in NotLaunched :
        /\ \A k \in DOMAIN trace :
              trace[k].cand = c => trace[k].cmd = "go test"
        /\ \A k \in DOMAIN Rows :
              Rows[k].Path # result.Packages[runner.candidates[c]].RelPath

(***************************************************************************)
(* C17                                                                     *)
(***************************************************************************)
\* the outcome of the command of that step for the c-th candidate, once it exited
Exited(c, cmd, n) ==
    LET ks == SelectSeq(trace, LAMBDA e :
                  e.ev = "exit" /\ e.cand = c /\ e.cmd = cmd)
    IN  Len(ks) >= n

\* C17: a native test exiting non-zero, a failing cache clean and a failing
\* cold or warm bazel test abort neither the candidate nor the batch: once
\* Run has returned, every candidate whose native test was launched has its
\* row with the three elapsed times, every candidate has been benchmarked,
\* and Run's error is nil, the SpeedReport being attached to the Report.
C17_FailuresDoNotAbort ==
    RunDone =>
      /\ \A c \in DOMAIN runner.candidates :
            /\ Exited(c, "go test", 1)
            /\ c \notin NotLaunched =>
                 /\ Exited(c, "bazel clean", 1) /\ Exited(c, "bazel test", 2)
                 /\ \E k \in DOMAIN Rows :
                      /\ Rows[k].Path = result.Packages[runner.candidates[c]].RelPath
                      /\ Rows[k].GoTestMs = "elapsed"
                      /\ Rows[k].BazelTestColdMs = "elapsed"
                      /\ Rows[k].BazelTestWarmMs = "elapsed"
      /\ report.SpeedComparison = speedReport

C17_Witness ==
    /\ RunDone
    /\ env.bad = 1 /\ env.go = "exit" /\ env.clean = "fail"
    /\ env.cold = "fail" /\ env.warm = "fail"
    /\ Len(runner.candidates) = 2
    /\ Len(Rows) = 2

(***************************************************************************)
(* C18                                                                     *)
(***************************************************************************)
\* C18: no step of Runner.Run changes the ScanResult: the order and contents
\* of Packages, every Package field and the totals stay as they were,
\* whatever the commands do.
C18_RunLeavesScanResult ==
    [][(pc \in {"run", "loop", "ran"}) => (result' = result)]_vars

\* the selection sort has moved a later package in front of an earlier one
C18_Witness ==
    /\ RunDone
    /\ Len(runner.candidates) >= 2
    /\ runner.candidates[1] > runner.candidates[2]
    /\ env.bad = 1 /\ env.go = "exit"

(***************************************************************************)
(* C19                                                                     *)
(***************************************************************************)
Serialized == ~IsNil(jsonBytes)

\* the benchmark phase was run: main built a Runner and called Run
BenchmarkRan == ~IsNil(runner)

\* C19: the serialized document lacks speedComparison exactly when the
\* benchmark phase was not run; when it ran the member is present, with an
\* empty packages array if nothing was eligible.
C19_SpeedComparisonIffBenchmarkRan ==
    Serialized =>
      /\ ("speedComparison" \notin DOMAIN jsonBytes) <=> ~BenchmarkRan
      /\ BenchmarkRan <=> runBenchmarks
      /\ (BenchmarkRan /\ EligibleIdx = {}) =>
            jsonBytes["speedComparison"].packages = <<>>

C19_Witness ==
    /\ Serialized
    /\ BenchmarkRan
    /\ EligibleIdx = {}
    /\ "speedComparison" \in DOMAIN jsonBytes
    /\ jsonBytes["speedComparison"].packages = <<>>

(***************************************************************************)
(* C20                                                                     *)
(***************************************************************************)
Exit == pc = "exit"

\* a benchmark command did not succeed
BenchmarkProblem ==
    \E k \in DOMAIN trace : trace[k].ev = "exit" /\ trace[k].outcome # "ok"

WalkCannotStart ==
    /\ env.main \in {"staterr", "unreadable"}
    /\ WalkError(Entry(<<>>, TRUE), fault)

\* C21: when the root exists but the walker cannot stat or read it, Scan
\* returns a non-nil error and main treats it as fatal: once the scan is
\* over the error is set, and the run ends with a non-zero exit code and the
\* output file as it was, never with an empty report and exit code 0.
C21_WalkStartFailureIsFatal ==
    WalkCannotStart =>
       /\ pc \notin {"start", "stat", "walk"} => scanErr # "nil"
       /\ Exit => exitCode = "1" /\ outFile = PreviousFile

\* the non-pruned directories that directly hold a delivered file ending in .go
GoDirs == {d \in DirsOf(fsFiles) : \E f \in VisibleFiles : f.dir = d /\ EndsInGo(f)}

\* C22: after Scan and Calculate, summary.totalPackages is the number of
\* non-pruned directories directly holding a .go file, packagesWithBuild the
\* number of those that also hold a manifest, packagesWithTests the number of
\* those holding a _test.go file; for the tree a (2 sources, 1 test, manifest
\* with one go_test), b (1 source), c (README only) the summary is 2 packages,
\* 1 with a manifest, 50 percent, 1 with tests, 50 percent, and 100 percent
\* of the tested packages with go_test rules.
C22_EndToEndSummary ==
    Calculated =>
      LET s == report.Summary
      IN  /\ s.TotalPackages = Cardinality(GoDirs)
          /\ s.PackagesWithBuild =
                Cardinality({d \in GoDirs :
                               \E f \in VisibleFiles : f.dir = d /\ IsManifest(f)})
          /\ s.PackagesWithTests =
                Cardinality({d \in GoDirs :
                               \E f \in VisibleFiles : f.dir = d /\ IsTest(f)})
          /\ fsFiles = ScenarioTree =>
                /\ s.TotalPackages = 2
                /\ s.PackagesWithBuild = 1
                /\ PctIs(s.BazelizationPct, 1, 2)
                /\ s.PackagesWithTests = 1
                /\ PctIs(s.TestCoveragePct, 1, 2)
                /\ PctIs(s.BazelizedTestsPct, 1, 1)

\* the report of the three-directory tree
C22_Witness ==
    /\ Calculated
    /\ fsFiles = ScenarioTree
    /\ report.Summary.TotalPackages = 2
    /\ report.Summary.PackagesWithBuild = 1

(***************************************************************************)
(* Claims about parseBuildFile.                                            *)
(***************************************************************************)
Parsed == pc = "parsed"

\* the positions at which a line of the text starts
LineStarts(text) == {i \in 1..Len(text) : i = 1 \/ text[i - 1] = "\n"}

\* the position of the first character at or after i that is not a blank
\* within the line
RECURSIVE SkipBlank(_, _)
SkipBlank(text, i) ==
    IF i <= Len(text) /\ text[i] \in {" ", "\t", "\r", "\f"}
    THEN SkipBlank(text, i + 1) ELSE i

\* the first non-blank characters of the line starting at i are kw
StartsWith(text, i, kw) ==
    LET j == SkipBlank(text, i)
    IN  j + Len(kw) - 1 <= Len(text) /\ SubSeq(text, j, j + Len(kw) - 1) = kw

\* the position right after kw in the line starting at i
AfterKeyword(text, i, kw) == SkipBlank(text, i) + Len(kw)

\* the lines that start with kw immediately followed by "("
CallLines(text, kw) ==
    {i \in LineStarts(text) :
       /\ StartsWith(text, i, kw)
       /\ AfterKeyword(text, i, kw) <= Len(text)
       /\ text[AfterKeyword(text, i, kw)] = "("}

\* the lines that start with kw followed by "(" after any whitespace, line
\* ends included
SpacedCallLines(text, kw) ==
    {i \in LineStarts(text) :
       /\ StartsWith(text, i, kw)
       /\ SkipSpace(text, AfterKeyword(text, i, kw)) <= Len(text)
       /\ text[SkipSpace(text, AfterKeyword(text, i, kw))] = "("}

\* C23 as stated: the count of each kind is the number of lines whose first
\* non-whitespace characters are the keyword immediately followed by "(".
C23_CountsCallLines ==
    Parsed =>
      /\ targets.goTests = Cardinality(CallLines(manifest, KW_go_test))
      /\ targets.goLibs = Cardinality(CallLines(manifest, KW_go_library))
      /\ targets.goBins = Cardinality(CallLines(manifest, KW_go_binary))

\* C23: for a manifest read to its end, the count of each kind (go_test,
\* go_library, go_binary) is the number of lines whose first non-whitespace
\* characters are the keyword followed, after optional whitespace that may
\* run over line ends, by "("; a keyword that is not at the start of a line
\* (assigned, nested, prefixed as in my_go_test) is not counted; two
\* go_test( lines and one go_library( line give 2, 1, 0.
C23_CountsSpacedCallLines ==
    Parsed =>
      /\ targets.goTests = Cardinality(SpacedCallLines(manifest, KW_go_test))
      /\ targets.goLibs = Cardinality(SpacedCallLines(manifest, KW_go_library))
      /\ targets.goBins = Cardinality(SpacedCallLines(manifest, KW_go_binary))
      /\ manifest = ScenarioManifest =>
            targets = [goTests |-> 2, goLibs |-> 1, goBins |-> 0]

\* a parsed manifest with a counted rule line and a prefixed keyword that is
\* not counted
C23_Witness ==
    /\ Parsed
    /\ targets.goTests = 1
    /\ \E i \in 1..Len(manifest) :
         /\ i + 9 <= Len(manifest)
         /\ SubSeq(manifest, i, i + 9) = <<"m", "y", "_">> \o KW_go_test

(***************************************************************************)
(* Claims about the dashboard.                                             *)
(***************************************************************************)
\* s up to its last character that is not a slash
WithoutTrailingSlashes(s) ==
    SubSeq(s, 1, IF \E k \in 1..Len(s) : s[k] # "/"
                 THEN CHOOSE k \in 1..Len(s) :
                        s[k] # "/" /\ \A j \in (k + 1)..Len(s) : s[j] = "/"
                 ELSE 0)

\* C24: getDataUrl honours the override in both modes: whenever
\* VITE_DATA_BASE_URL is set to a non-empty value ("/" included) the URL is
\* that base without its trailing slashes, then "/", the file name and the
\* cache-bust suffix, whatever DEV is; only without it does a dev build give
\* "/<filename>" and a production build the bucket URL.
C24_OverrideHonoured ==
    ~IsNil(dataUrl) =>
      LET base == importMetaEnv.VITE_DATA_BASE_URL
      IN  IF base.set /\ base.value # <<>>
          THEN dataUrl.url = WithoutTrailingSlashes(base.value) \o <<"/">>
                               \o S_ai_fix_metrics_json \o CACHE_BUST
          ELSE IF importMetaEnv.DEV
               THEN dataUrl.url = <<"/">> \o S_ai_fix_metrics_json
               ELSE dataUrl.url = GCS_BUCKET_URL \o <<"/">>
                                    \o S_ai_fix_metrics_json \o CACHE_BUST

(***************************************************************************)
(* Claims about the scan, continued.                                       *)
(***************************************************************************)
\* the callback is handed a file without an error
VisitStep ==
    /\ pc = "walk" /\ todo # <<>>
    /\ ~Head(todo).isDir
    /\ ~Failing(Head(todo).path)
    /\ todo' = Tail(todo)

FileCounts(pkg) == <<pkg.HasTestFiles, pkg.GoFileCount, pkg.TestFileCount>>

\* C25: each visited file is of at most one kind, manifest before test before
\* source.  A file named BUILD or BUILD.bazel only sets HasBuildFile, adds 1
\* to TotalBUILDs and sets the rule counts; a file ending in _test.go only
\* sets HasTestFiles and adds 1 to the package's and the global test count
\* (never to GoFileCount); another file ending in .go only adds 1 to the
\* package's and the global source count; any other file changes no counter
\* and no flag.  No visit touches another directory's package.
C25_OneKindPerFile ==
    [][VisitStep =>
         LET f == FileAt(fsFiles, Head(todo).path)
             old == IF f.dir \in DOMAIN packageMap
                    THEN packageMap[f.dir] ELSE NewPackage(rootName, f.dir)
             new == packageMap'[f.dir]
         IN  /\ \A d \in DOMAIN packageMap \ {f.dir} : packageMap'[d] = packageMap[d]
             /\ IF IsManifest(f)
                THEN /\ new.HasBuildFile
                     /\ FileCounts(new) = FileCounts(old)
                     /\ \/ RuleCounts(new) = RuleCounts(old)
                        \/ RuleCounts(new) =
                             <<FindAllCount(ReadText(ManifestTexts[f.text]), KW_go_test),
                               FindAllCount(ReadText(ManifestTexts[f.text]), KW_go_library),
                               FindAllCount(ReadText(ManifestTexts[f.text]), KW_go_binary)>>
                     /\ result' = [result EXCEPT !.TotalBUILDs = @ + 1]
                ELSE IF IsTest(f)
                THEN /\ new = [old EXCEPT !.HasTestFiles = TRUE, !.TestFileCount = @ + 1]
                     /\ result' = [result EXCEPT !.TotalTests = @ + 1]
                ELSE IF EndsInGo(f)
                THEN /\ new = [old EXCEPT !.GoFileCount = @ + 1]
                     /\ result' = [result EXCEPT !.TotalGoFiles = @ + 1]
                ELSE new = old /\ result' = result]_vars

\* a scan that visited a README, a source and a test file of one directory
C25_Witness ==
    /\ Scanned
    /\ \E i \in 1..Len(result.Packages) :
         /\ result.Packages[i].GoFileCount = 1
         /\ result.Packages[i].TestFileCount = 1
         /\ ~result.Packages[i].HasBuildFile
         /\ \E f \in VisibleFiles :
              /\ <<rootName>> \o f.dir = result.Packages[i].Path
              /\ f.name = N_README

(***************************************************************************)
(* Claims about the directory breakdown, continued.                        *)
(***************************************************************************)
\* the characters of a path before its first "/"
RECURSIVE FirstSegment(_)
FirstSegment(path) ==
    IF path = <<>> \/ Head(path) = "/" THEN <<>>
    ELSE <<Head(path)>> \o FirstSegment(Tail(path))

\* the name of the group of a package: its first segment, "(root)" for "." or none
GroupName(pkg) ==
    IF FirstSegment(pkg.RelPath) \in {<<>>, S_dot} THEN S_root_label
    ELSE FirstSegment(pkg.RelPath)

\* the input packages of the group called name
GroupOf(name) == {i \in InputIdx : GroupName(result.Packages[i]) = name}

\* C26: the breakdown has exactly one entry per distinct first path segment
\* of the packages' RelPath, "." and the empty segment going under "(root)";
\* an entry's totalPackages, bazelizedPackages and packagesWithTests are the
\* counts of its group; no entry has totalPackages = 0.
C26_OneEntryPerTopLevelDir ==
    Calculated =>
      LET names == {GroupName(result.Packages[i]) : i \in InputIdx}
      IN  /\ {Breakdown[k].Name : k \in DOMAIN Breakdown} = names
          /\ Len(Breakdown) = Cardinality(names)
          /\ \A k \in DOMAIN Breakdown :
                /\ Breakdown[k].TotalPackages = Cardinality(GroupOf(Breakdown[k].Name))
                /\ Breakdown[k].BazelizedPackages =
                      Cardinality({i \in GroupOf(Breakdown[k].Name) :
                                     result.Packages[i].HasBuildFile})
                /\ Breakdown[k].PackagesWithTests =
                      Cardinality({i \in GroupOf(Breakdown[k].Name) :
                                     result.Packages[i].HasTestFiles})
                /\ Breakdown[k].TotalPackages > 0

\* a breakdown with the root group and a group of a directory and its
\* subdirectory
C26_Witness ==
    /\ Calculated
    /\ Len(Breakdown) = 2
    /\ \E k \in DOMAIN Breakdown : Breakdown[k].Name = S_root_label
    /\ \E k \in DOMAIN Breakdown :
         Breakdown[k].Name = N_pkg /\ Breakdown[k].TotalPackages = 2

(***************************************************************************)
(* Claims about the scan root and about directories with two manifests.    *)
(***************************************************************************)
\* d is a pruned directory inside the tree or lies below one
InPrunedInside(d) == \E k \in 1..Len(d) : PrunedName(Last(SubSeq(d, 1, k)))

\* C27: the exclusion rules are applied to the directories inside the tree
\* and never to the scan root: whatever the root is called, once Scan has
\* returned every directory that is not pruned inside the tree and holds a
\* delivered file ending in .go is among the packages.
C27_RootNeverPruned ==
    Scanned =>
      \A f \in fsFiles :
         (/\ EndsInGo(f)
          /\ ~InPrunedInside(f.dir)
          /\ ~InFailed(f.dir)
          /\ ~Failing(FilePath(f))) => f.dir \in RetainedDirs

\* the delivered manifests of directory d
ManifestsOf(d) == {f \in VisibleFiles : f.dir = d /\ IsManifest(f)}

\* the manifest was opened and read to its end
ParsedOk(f) == fault.path # FilePath(f)

\* the rule counts of one manifest
CountsOf(f) ==
    LET t == CountTargets(ReadText(ManifestTexts[f.text]))
    IN  <<t.goTests, t.goLibs, t.goBins>>

\* the manifests of d that were parsed, BUILD.bazel being visited after BUILD
LastParsed(d) ==
    IF \E f \in ManifestsOf(d) : f.name = S_BUILD_bazel /\ ParsedOk(f)
    THEN {f \in ManifestsOf(d) : f.name = S_BUILD_bazel}
    ELSE {f \in ManifestsOf(d) : f.name = S_BUILD /\ ParsedOk(f)}

\* C28: once Scan has returned, TotalBUILDs counts every delivered manifest,
\* both of a directory that has BUILD and BUILD.bazel, while the three rule
\* counts of a directory's Package are those of one manifest, the last one
\* visited that parsed without an error (0 when none did), never the sum.
C28_RuleCountsOfLastParsedManifest ==
    Scanned =>
      /\ result.TotalBUILDs = Cardinality({f \in VisibleFiles : IsManifest(f)})
      /\ \A d \in DOMAIN packageMap :
           /\ packageMap[d].HasBuildFile <=> ManifestsOf(d) # {}
           /\ IF LastParsed(d) = {}
              THEN RuleCounts(packageMap[d]) = <<0, 0, 0>>
              ELSE \A f \in LastParsed(d) : RuleCounts(packageMap[d]) = CountsOf(f)

\* a directory with both manifests, both parsed, with different counts: two
\* manifests counted, one package with HasBuildFile
C28_Witness ==
    /\ Scanned
    /\ result.TotalBUILDs = 2
    /\ Cardinality({d \in DOMAIN packageMap : packageMap[d].HasBuildFile}) = 1
    /\ \E d \in DOMAIN packageMap :
         /\ Cardinality(ManifestsOf(d)) = 2
         /\ \A f \in ManifestsOf(d) : ParsedOk(f)
         /\ \E f, g \in ManifestsOf(d) : CountsOf(f) # CountsOf(g)

(***************************************************************************)
(* Claims about the dashboard, continued.                                  *)
(***************************************************************************)
\* the page is within the pages of the filtered list, the number of pages is
\* the filtered count over 20 rounded up, and a filtered list that is not
\* empty shows a slice that is not empty
PageInRange ==
    ExplorerMounted =>
      LET n == Len(filteredPackages)
      IN  /\ 0 <= page
          /\ page <= (IF totalPages - 1 >= 0 THEN totalPages - 1 ELSE 0)
          /\ totalPages * 20 >= n
          /\ (totalPages - 1) * 20 < n
          /\ n > 0 => Len(paginatedPackages) > 0

\* C29: with the packages of the report fixed, after any sequence of search
\* edits, filter changes and Prev/Next clicks, 0 <= page <=
\* max(0, totalPages - 1) with totalPages = ceil(filtered count / 20), and a
\* filtered list that is not empty shows a slice that is not empty; every
\* search edit and every filter change sets page to 0.
C29_PageWithinPages ==
    /\ []PageInRange
    /\ [][(search' # search \/ filter' # filter) => page' = 0]_vars

\* the last of two pages, reached by a Next click after a search edit
C29_Witness ==
    /\ ExplorerMounted
    /\ search # <<>>
    /\ totalPages = 2
    /\ page = 1
    /\ Len(paginatedPackages) = 1

\* the load has settled
Settled == fetch = "settled"

\* C30: the load starts with loading = true, metrics = null, error = null;
\* once the fetch has settled, in whatever way, loading is false, and it
\* never becomes true again; metrics and error are never both set; on the
\* metrics page the metrics view is rendered only with loading false, error
\* null and metrics set, and every other settled state shows the error view.
C30_LoadIsOneWay ==
    /\ (loading = TRUE /\ IsNil(metrics) /\ IsNil(error))
    /\ [](Settled => ~loading)
    /\ [][~loading => ~loading']_vars
    /\ [](IsNil(metrics) \/ IsNil(error))
    /\ [](View = "metrics" => ~loading /\ IsNil(error) /\ ~IsNil(metrics))
    /\ []((Settled /\ route = "metrics" /\ ~(IsNil(error) /\ ~IsNil(metrics)))
            => View = "error")

\* a load that settled with the JSON value null: no metrics, no error, and
\* the error view
C30_Witness ==
    /\ Settled
    /\ ~loading
    /\ IsNil(metrics)
    /\ IsNil(error)
    /\ View = "error"

====
